---- MODULE Spec2Model ----
(***************************************************************************)
(* PlexNowPlayingAPI2MQTT: the reconciliation loop of PlexMQTTBridge.run   *)
(* (src/main.py) with the change detector, the session filter, the topic   *)
(* router, the Last.fm scrobble ledger, the user/device tracking store and *)
(* the web interface's session map (src/web_interface.py).                 *)
(*                                                                         *)
(* Strings are TLA+ strings; Python f-strings are string concatenation and *)
(* str(int) is ToString.  A Python dict is a function over its key set,    *)
(* except scrobbled_tracks, whose insertion order decides the eviction     *)
(* order of equal timestamps and which is a sequence of (id, ts) entries.  *)
(* An optional dict key (session_key) is <<>> when absent and <<v>> when   *)
(* present.                                                                *)
(***************************************************************************)
EXTENDS Integers, Sequences, FiniteSets, TLC

VARIABLES
    pc,                 \* position of the main thread
    config,             \* self.config (fixed after construction)
    file,               \* the persistence file on disk
    seen_users,         \* self.seen_users
    seen_devices,       \* self.seen_devices
    users_devices_last_published,
    last_status,        \* self.last_status
    current_sessions,   \* web_interface.current_sessions
    scrobbled_tracks,   \* self.scrobbled_tracks, in insertion order
    all_music_sessions, \* run(): all_music_sessions
    music_sessions,     \* run(): music_sessions (the filtered batch)
    idx,                \* run(): position of the for loop in music_sessions
    current_session_keys,
    active_web_sessions,
    clock,              \* int(time.time())
    plex,               \* the sessions the Plex server may report in this run
    \* ---- history variables (observations of the run, never read by the program)
    prev_tick,          \* "start", or what the previous completed tick was: "active" / "idle"
    tick_stopped_pubs,  \* calls of _publish_stopped_status in the current tick
    last_published,     \* identity -> the record last handed to the bus for it
    obs,                \* the last call of _track_user_and_device
    observed_pairs,     \* the (user, device) pairs tracked so far in this process
    scrob,              \* the last call of _scrobble_to_lastfm
    ever_scrobbled,     \* track ids the scrobble service accepted in this process
    tick_sessions,      \* web_interface.current_sessions at the end of the last completed tick
    tick_pubs,          \* what the aggregate step of the current tick handed to the bus
    bus,                \* what became of the session and stopped records handed to the bus
    detect_in,          \* SpecDetect: the session handed to the change detector
    detect_out,         \* SpecDetect: what the change detector answered
    \* ---- the Home Assistant discovery registrar
    ha_sensors,         \* self.ha_sensors: the entity ids that have a sensor
    ha_last_states,     \* self.ha_last_states
    ha_entity,          \* history: entity id -> the last state its sensor accepted
    ha_call,            \* history: the last call of _update_ha_sensor
    \* ---- the environment's failures and how the run ended
    faults,             \* the collaborator failures that may happen in this run
    fetch_failed,       \* history: "now" the fetch of this tick failed, "before" the
                        \* fetch of the tick before did and this one did not, else "no"
    exit_cause,         \* history: "none", or why run() left its loop
    last_save,          \* history: what the last shutdown or forced save did
    web_response,       \* history: the last response of the web interface
    \* ---- argument and result of the pure functions checked on their own
    routed_topic,       \* _get_topic_for_session: its result
    duration_ms,        \* _format_duration: its argument
    duration_formatted  \* _format_duration: its result

vars == << pc, config, file, seen_users, seen_devices, users_devices_last_published,
           last_status, current_sessions, scrobbled_tracks, all_music_sessions,
           music_sessions, idx, current_session_keys, active_web_sessions, clock,
           plex, prev_tick, tick_stopped_pubs, last_published, obs, observed_pairs,
           scrob, ever_scrobbled, detect_in, detect_out, ha_sensors, ha_last_states,
           ha_entity, ha_call, faults, fetch_failed, exit_cause, last_save,
           web_response, routed_topic, duration_ms, duration_formatted,
           tick_sessions, tick_pubs, bus >>

----------------------------------------------------------------------------
(* Bounds of the model *)

\* sessions per poll
MaxBatch == 2
\* the clock reads 0..MaxClock seconds
MaxClock == 1
\* distinct session keys the ledger specification plays
MaxKeys == 102

(* Constants of the program *)

\* main.py:991  offset_diff > 5000
OffsetThresholdMs == 5000
\* main.py:743  len(self.scrobbled_tracks) > 100
LedgerCap == 100
\* main.py:744  sorted(...)[:50]
EvictCount == 50
\* main.py:701  scrobble_threshold default 0.5, in hundredths of a percent
ScrobbleThresholdCenti == 50
\* main.py:702  min_duration default 30 (seconds)
MinDurationSec == 30

----------------------------------------------------------------------------
(* Helpers *)

EmptyMap == [k \in {} |-> 0]

Restrict(f, S) == [k \in (DOMAIN f) \cap S |-> f[k]]

Range(s) == { s[i] : i \in DOMAIN s }

Abs(n) == IF n < 0 THEN 0 - n ELSE n

RECURSIVE SetToSeq(_)
SetToSeq(S) ==
    IF S = {} THEN <<>>
    ELSE LET x == CHOOSE y \in S : TRUE IN <<x>> \o SetToSeq(S \ {x})

\* str.replace(c, r) for a one-character c
RECURSIVE Replace(_, _, _)
Replace(s, c, r) ==
    IF Len(s) = 0 THEN ""
    ELSE (IF SubSeq(s, 1, 1) = c THEN r ELSE SubSeq(s, 1, 1))
         \o Replace(SubSeq(s, 2, Len(s)), c, r)

\* str.startswith(p)
StartsWith(s, p) == Len(s) >= Len(p) /\ SubSeq(s, 1, Len(p)) = p

----------------------------------------------------------------------------
(* Session records (the dict built by _extract_music_info_from_session) *)

\* main.py:313-317  progress_percent = round(viewOffset / duration * 100, 2),
\* kept in hundredths of a percent
ProgressPercent(view_offset, duration) ==
    IF duration > 0 THEN (2 * view_offset * 10000 + duration) \div (2 * duration)
    ELSE 0

MkSession(user, device, skey, title, artist, status, view_offset, duration) ==
    [ user |-> user, device |-> device, session_key |-> skey, title |-> title,
      artist |-> artist, status |-> status, viewOffset |-> view_offset,
      duration |-> duration,
      progress_percent |-> ProgressPercent(view_offset, duration) ]

\* a mutation of the device clean-up: '$' is replaced by an underscore followed by '$'
CleanDeviceNameKeepDollar(device_name) ==
    Replace(Replace(Replace(Replace(Replace(device_name, " ", "_"), "/", "_"),
                            "#", ""), "+", ""), "$", "_$")

\* main.py:306
CleanDeviceName(device_name) ==
    Replace(Replace(Replace(Replace(Replace(device_name, " ", "_"), "/", "_"),
                            "#", ""), "+", ""), "$", "")

\* music_info.get('session_key', default) inside an f-string
SessionKeyOr(s, default) ==
    IF s.session_key = <<>> THEN default ELSE ToString(s.session_key[1])

\* main.py:972 and main.py:1026
StatusKey(s) == s.user \o "_" \o SessionKeyOr(s, s.title)

\* main.py:1027 and web_interface.py:142
WebSessionKey(s) == s.user \o "_" \o s.device

\* main.py:723
TrackId(s) == s.artist \o ":" \o s.title \o ":" \o SessionKeyOr(s, "")

\* the value run() stores under '_stopped' (main.py:1067): True, not a session dict
StoppedFlag == [stopped_flag |-> TRUE]

IsInfo(e) == "status" \in DOMAIN e

\* dict.get('_stopped', False) used as a condition: a non-empty dict is truthy
StoppedMarked(ls) == "_stopped" \in DOMAIN ls

----------------------------------------------------------------------------
(* Session Filter: PlexMQTTBridge._filter_sessions, main.py:418-459 *)

\* a mutation of max(): of the sessions holding the greatest offset the last one wins
MostRecentIndexLast(sessions) ==
    CHOOSE i \in 1..Len(sessions) :
        /\ \A j \in 1..Len(sessions) : sessions[j].viewOffset <= sessions[i].viewOffset
        /\ \A j \in (i + 1)..Len(sessions) : sessions[j].viewOffset < sessions[i].viewOffset

\* max(music_sessions, key=viewOffset): the first session holding the greatest offset
MostRecentIndex(sessions) ==
    CHOOSE i \in 1..Len(sessions) :
        /\ \A j \in 1..Len(sessions) : sessions[j].viewOffset <= sessions[i].viewOffset
        /\ \A j \in 1..(i - 1) : sessions[j].viewOffset < sessions[i].viewOffset

\* a mutation of the filter: without a session of the priority user the batch passes
FilterSessionsFallbackAll(cfg, sessions) ==
    IF cfg.strategy = "priority_user" THEN
        LET priority_sessions ==
                SelectSeq(sessions, LAMBDA s : s.user = cfg.priority_user)
        IN  IF cfg.priority_user # "" /\ priority_sessions # <<>>
            THEN priority_sessions
            ELSE sessions
    ELSE IF cfg.strategy = "first_only" THEN SubSeq(sessions, 1, 1)
    ELSE IF cfg.strategy = "user_filter" /\ cfg.user_filter # {} THEN
        SelectSeq(sessions, LAMBDA s : s.user \in cfg.user_filter)
    ELSE IF cfg.strategy = "most_recent" /\ Len(sessions) > 1 THEN
        << sessions[MostRecentIndex(sessions)] >>
    ELSE sessions

\* a mutation of the filter: 'first_only' drops the first session and keeps the rest
FilterSessionsDropFirst(cfg, sessions) ==
    IF sessions = <<>> THEN sessions
    ELSE IF cfg.strategy = "all" THEN sessions
    ELSE IF cfg.strategy = "priority_user" THEN
        LET priority_sessions ==
                SelectSeq(sessions, LAMBDA s : s.user = cfg.priority_user)
        IN  IF cfg.priority_user # "" /\ priority_sessions # <<>>
            THEN priority_sessions
            ELSE SubSeq(sessions, 1, 1)
    ELSE IF cfg.strategy = "first_only" THEN Tail(sessions)
    ELSE IF cfg.strategy = "user_filter" THEN
        IF cfg.user_filter # {}
        THEN SelectSeq(sessions, LAMBDA s : s.user \in cfg.user_filter)
        ELSE sessions
    ELSE IF cfg.strategy = "most_recent" THEN
        IF Len(sessions) > 1 THEN << sessions[MostRecentIndex(sessions)] >>
        ELSE sessions
    ELSE sessions

\* main.py:418-459
FilterSessions(cfg, sessions) ==
    IF sessions = <<>> THEN sessions
    ELSE IF cfg.strategy = "all" THEN sessions
    ELSE IF cfg.strategy = "priority_user" THEN
        LET priority_sessions ==
                SelectSeq(sessions, LAMBDA s : s.user = cfg.priority_user)
        IN  IF cfg.priority_user # "" /\ priority_sessions # <<>>
            THEN priority_sessions
            ELSE SubSeq(sessions, 1, 1)
    ELSE IF cfg.strategy = "first_only" THEN SubSeq(sessions, 1, 1)
    ELSE IF cfg.strategy = "user_filter" THEN
        IF cfg.user_filter # {}
        THEN SelectSeq(sessions, LAMBDA s : s.user \in cfg.user_filter)
        ELSE sessions
    ELSE IF cfg.strategy = "most_recent" THEN
        IF Len(sessions) > 1 THEN << sessions[MostRecentIndex(sessions)] >>
        ELSE sessions
    ELSE sessions

----------------------------------------------------------------------------
(* Topic Router: PlexMQTTBridge._get_topic_for_session, main.py:393-416 *)

\* a mutation of the router: a strategy it does not know routes per user
GetTopicForSessionPerUserDefault(cfg, s) ==
    IF cfg.topic_strategy = "user_device_track" THEN
        cfg.topic \o "/" \o Replace(Replace(s.user, " ", "_"), "/", "_")
                  \o "/" \o Replace(Replace(s.device, " ", "_"), "/", "_")
                  \o "/DATA"
    ELSE IF cfg.topic_strategy = "single" THEN cfg.topic
    ELSE IF cfg.topic_strategy = "per_device" THEN
        cfg.topic \o "/session_" \o SessionKeyOr(s, "unknown")
    ELSE IF cfg.topic_strategy = "hierarchical" THEN
        cfg.topic \o "/" \o s.user \o "/session_" \o SessionKeyOr(s, "unknown")
    ELSE cfg.topic \o "/" \o s.user

GetTopicForSession(cfg, s) ==
    IF cfg.topic_strategy = "user_device_track" THEN
        cfg.topic \o "/" \o Replace(Replace(s.user, " ", "_"), "/", "_")
                  \o "/" \o Replace(Replace(s.device, " ", "_"), "/", "_")
                  \o "/DATA"
    ELSE IF cfg.topic_strategy = "per_user" THEN cfg.topic \o "/" \o s.user
    ELSE IF cfg.topic_strategy = "per_device" THEN
        cfg.topic \o "/session_" \o SessionKeyOr(s, "unknown")
    ELSE IF cfg.topic_strategy = "hierarchical" THEN
        cfg.topic \o "/" \o s.user \o "/session_" \o SessionKeyOr(s, "unknown")
    ELSE cfg.topic

----------------------------------------------------------------------------
(* Change Detector: PlexMQTTBridge._should_publish_update, main.py:970-994 *)

\* a mutation of the change detector: the position threshold made inclusive
ShouldPublishUpdateInclusive(ls, s) ==
    LET session_key == StatusKey(s) IN
    IF session_key \notin DOMAIN ls THEN "true"
    ELSE IF ~IsInfo(ls[session_key]) THEN "raise"
    ELSE LET last_info == ls[session_key] IN
         IF last_info.status # s.status THEN "true"
         ELSE IF last_info.title # s.title \/ last_info.artist # s.artist THEN "true"
         ELSE IF Abs(s.viewOffset - last_info.viewOffset) >= OffsetThresholdMs THEN "true"
         ELSE "false"

\* "true" / "false", or "raise": the entry found under the key is the stopped flag
\* (True), and True.get('status') raises AttributeError
ShouldPublishUpdate(ls, s) ==
    LET session_key == StatusKey(s) IN
    IF session_key \notin DOMAIN ls THEN "true"
    ELSE IF ~IsInfo(ls[session_key]) THEN "raise"
    ELSE LET last_info == ls[session_key] IN
         IF last_info.status # s.status THEN "true"
         ELSE IF last_info.title # s.title \/ last_info.artist # s.artist THEN "true"
         ELSE IF Abs(s.viewOffset - last_info.viewOffset) > OffsetThresholdMs THEN "true"
         ELSE "false"

----------------------------------------------------------------------------
(* Tracking Store: main.py:500-534 and main.py:592-652 *)

FileAbsent == [kind |-> "absent"]

\* no JSON document: never written completely, or not written by this program
FileInvalid == [kind |-> "invalid"]

JsonList(seq) == [tag |-> "list", val |-> seq]

\* the key is not in the document
JsonMissing == [tag |-> "missing", val |-> <<>>]

\* a JSON value set() cannot iterate (a number, null)
JsonBad == [tag |-> "bad", val |-> <<>>]

FileJson(users, devices) == [kind |-> "json", users |-> users, devices |-> devices]

\* main.py:626-628
SavingEnabled(cfg) == cfg.tracking_enabled /\ cfg.auto_save

\* a mutation of the save: the devices are left out of the document
SaveTrackingDataUsersOnly(cfg, users, devices, f, outcome) ==
    IF ~SavingEnabled(cfg) THEN f
    ELSE IF outcome = "ok" THEN
        FileJson(JsonList(SetToSeq(users)), JsonMissing)
    ELSE IF outcome = "open_error" THEN f
    ELSE FileInvalid

\* main.py:624-647; outcome: "ok", "open_error" (open() raised, nothing written) or
\* "dump_error" (the file was truncated by open(.., 'w') and json.dump raised)
SaveTrackingData(cfg, users, devices, f, outcome) ==
    IF ~SavingEnabled(cfg) THEN f
    ELSE IF outcome = "ok" THEN
        FileJson(JsonList(SetToSeq(users)), JsonList(SetToSeq(devices)))
    ELSE IF outcome = "open_error" THEN f
    ELSE FileInvalid

\* what a call of _save_tracking_data did: "skipped" is the early return of line 628
SaveReport(cfg, outcome) == IF SavingEnabled(cfg) THEN outcome ELSE "skipped"

\* a mutation of the load: the devices of the file are not read
LoadTrackingDataUsersOnly(cfg, f, users, devices) ==
    IF ~cfg.tracking_enabled \/ f.kind # "json" \/ f.users.tag # "list"
    THEN [users |-> users, devices |-> devices]
    ELSE [users |-> Range(f.users.val), devices |-> devices]

\* main.py:592-622: returns the two sets after loading
LoadTrackingData(cfg, f, users, devices) ==
    LET same == [users |-> users, devices |-> devices] IN
    IF ~cfg.tracking_enabled THEN same
    ELSE IF f.kind # "json" THEN same
    ELSE IF f.users.tag = "bad" THEN same
    ELSE LET u == IF f.users.tag = "list" THEN Range(f.users.val) ELSE users IN
         IF f.devices.tag = "bad" THEN [users |-> u, devices |-> devices]
         ELSE [ users |-> u,
                devices |-> IF f.devices.tag = "list" THEN Range(f.devices.val)
                            ELSE devices ]

\* a mutation of set.add: the set is replaced
AddSeenReplacing(seen, x) == {x}

\* main.py:515-516  self.seen_users.add(user)
AddSeen(seen, x) == seen \cup {x}

\* a mutation of the auto-save condition: saved on every observation
ShouldAutoSaveAlways(cfg, new_user, new_device) == cfg.auto_save

\* main.py:533
ShouldAutoSave(cfg, new_user, new_device) ==
    (new_user \/ new_device) /\ cfg.auto_save

\* main.py:500-534 without the Home Assistant sensor calls of lines 518-524, which
\* are HaStep: they raise nothing and touch neither the sets nor the file
TrackUserAndDevice(cfg, users, devices, f, s, outcome) ==
    IF ~cfg.tracking_enabled THEN
        [ users |-> users, devices |-> devices, file |-> f, tracked |-> FALSE,
          new_user |-> FALSE, new_device |-> FALSE, saved |-> FALSE ]
    ELSE
        LET new_user == s.user \notin users
            new_device == s.device \notin devices
            users2 == AddSeen(users, s.user)
            devices2 == AddSeen(devices, s.device)
            save == ShouldAutoSave(cfg, new_user, new_device)
        IN  [ users |-> users2, devices |-> devices2,
              file |-> IF save THEN SaveTrackingData(cfg, users2, devices2, f, outcome)
                       ELSE f,
              tracked |-> TRUE, new_user |-> new_user, new_device |-> new_device,
              saved |-> save /\ SavingEnabled(cfg) ]

----------------------------------------------------------------------------
(* Users / devices lists: PlexMQTTBridge._publish_users_and_devices,        *)
(* main.py:536-574.  A published list is <<set>>, None is <<>>; a sorted    *)
(* list of a set is compared as the set.                                    *)

\* returns the marker after the call and which of the two lists were handed to the bus
PublishUsersAndDevices(cfg, udlp, users, devices, ok_users, ok_devices) ==
    IF ~cfg.tracking_enabled THEN
        [ udlp |-> udlp, users_sent |-> FALSE, devices_sent |-> FALSE ]
    ELSE
        LET users_changed == udlp.users # <<users>>
            devices_changed == udlp.devices # <<devices>>
        IN  [ udlp |-> [ users |-> IF users_changed /\ ok_users THEN <<users>>
                                   ELSE udlp.users,
                         devices |-> IF devices_changed /\ ok_devices THEN <<devices>>
                                     ELSE udlp.devices ],
              users_sent |-> users_changed,
              devices_sent |-> devices_changed ]

----------------------------------------------------------------------------
(* Scrobble ledger: PlexMQTTBridge._scrobble_to_lastfm, main.py:695-751 *)

\* track_id in self.scrobbled_tracks
InLedger(ledger, track_id) == \E i \in 1..Len(ledger) : ledger[i].id = track_id

\* position of entry i in sorted(items, key=timestamp): sorted() is stable, so equal
\* timestamps keep the dict's insertion order
StableRank(ledger, i) ==
    Cardinality({ j \in 1..Len(ledger) :
                    \/ ledger[j].ts < ledger[i].ts
                    \/ (ledger[j].ts = ledger[i].ts /\ j < i) })

RECURSIVE DropOldest(_, _, _)
DropOldest(ledger, i, n) ==
    IF i > Len(ledger) THEN <<>>
    ELSE (IF StableRank(ledger, i) < n THEN <<>> ELSE << ledger[i] >>)
         \o DropOldest(ledger, i + 1, n)

\* a mutation of the cleanup: the newest entries are deleted (a sort in reverse)
CleanupOldScrobblesNewest(ledger) ==
    IF Len(ledger) > LedgerCap THEN SubSeq(ledger, 1, Len(ledger) - EvictCount)
    ELSE ledger

\* main.py:742-746
CleanupOldScrobbles(ledger) ==
    IF Len(ledger) > LedgerCap THEN DropOldest(ledger, 1, EvictCount)
    ELSE ledger

\* a mutation of the scrobble step: the ledger is not consulted
ScrobbleToLastfmNoLedgerCheck(cfg, ledger, s, ok, now) ==
    LET skip(called) == [ ledger |-> ledger, called |-> called, accepted |-> FALSE ]
        track_id == TrackId(s)
    IN  IF ~cfg.lastfm THEN skip(FALSE)
        ELSE IF s.artist = "" \/ s.title = "" THEN skip(FALSE)
        ELSE IF s.duration < MinDurationSec * 1000 THEN skip(FALSE)
        ELSE IF s.progress_percent < ScrobbleThresholdCenti THEN skip(FALSE)
        ELSE IF ~ok THEN skip(TRUE)
        ELSE [ ledger |-> CleanupOldScrobbles(
                              Append(SelectSeq(ledger, LAMBDA e : e.id # track_id),
                                     [id |-> track_id, ts |-> now])),
               called |-> TRUE, accepted |-> TRUE ]

\* a mutation of the scrobble step: the key is recorded before the service is called
ScrobbleToLastfmRecordFirst(cfg, ledger, s, ok, now) ==
    LET skip(called) == [ ledger |-> ledger, called |-> called, accepted |-> FALSE ]
        track_id == TrackId(s)
    IN  IF ~cfg.lastfm THEN skip(FALSE)
        ELSE IF s.artist = "" \/ s.title = "" THEN skip(FALSE)
        ELSE IF s.duration < MinDurationSec * 1000 THEN skip(FALSE)
        ELSE IF s.progress_percent < ScrobbleThresholdCenti THEN skip(FALSE)
        ELSE IF InLedger(ledger, track_id) THEN skip(FALSE)
        ELSE [ ledger |-> CleanupOldScrobbles(
                              Append(ledger, [id |-> track_id, ts |-> now])),
               called |-> TRUE, accepted |-> ok ]

\* a mutation of the scrobble step: the title is not required
ScrobbleToLastfmNoTitleCheck(cfg, ledger, s, ok, now) ==
    LET skip(called) == [ ledger |-> ledger, called |-> called, accepted |-> FALSE ]
        track_id == TrackId(s)
    IN  IF ~cfg.lastfm THEN skip(FALSE)
        ELSE IF s.artist = "" THEN skip(FALSE)
        ELSE IF s.duration < MinDurationSec * 1000 THEN skip(FALSE)
        ELSE IF s.progress_percent < ScrobbleThresholdCenti THEN skip(FALSE)
        ELSE IF InLedger(ledger, track_id) THEN skip(FALSE)
        ELSE IF ~ok THEN skip(TRUE)
        ELSE [ ledger |-> CleanupOldScrobbles(
                              Append(ledger, [id |-> track_id, ts |-> now])),
               called |-> TRUE, accepted |-> TRUE ]

\* cfg.lastfm: self.lastfm_network is set.  ok: the scrobble call returned (it raises
\* otherwise, and the except clause of line 750 leaves the ledger alone).
\* called: lastfm_network.scrobble was called; accepted: it returned.
ScrobbleToLastfm(cfg, ledger, s, ok, now) ==
    LET skip(called) == [ ledger |-> ledger, called |-> called, accepted |-> FALSE ]
        track_id == TrackId(s)
    IN  IF ~cfg.lastfm THEN skip(FALSE)
        ELSE IF s.artist = "" \/ s.title = "" THEN skip(FALSE)
        ELSE IF s.duration < MinDurationSec * 1000 THEN skip(FALSE)
        ELSE IF s.progress_percent < ScrobbleThresholdCenti THEN skip(FALSE)
        ELSE IF InLedger(ledger, track_id) THEN skip(FALSE)
        ELSE IF ~ok THEN skip(TRUE)
        ELSE [ ledger |-> CleanupOldScrobbles(
                              Append(ledger, [id |-> track_id, ts |-> now])),
               called |-> TRUE, accepted |-> TRUE ]

\* main.py:1041-1044: the Last.fm part of one session of the loop
LastfmStep(cfg, ledger, s, ok, now) ==
    IF s.status = "playing" THEN ScrobbleToLastfm(cfg, ledger, s, ok, now)
    ELSE [ ledger |-> ledger, called |-> FALSE, accepted |-> FALSE ]

----------------------------------------------------------------------------
(* The web interface's session map: src/web_interface.py:140-178 *)

\* web_interface.py:140-167  update_session
UpdateSession(sessions, s, topic) ==
    (WebSessionKey(s) :>
        [ session_key |-> WebSessionKey(s), user |-> s.user, device |-> s.device,
          title |-> s.title, artist |-> s.artist, status |-> s.status,
          progress_percent |-> s.progress_percent, topic |-> topic ])
    @@ sessions

\* web_interface.py:174-178  clear_inactive_sessions
ClearInactiveSessions(sessions, active_session_keys) ==
    Restrict(sessions, active_session_keys)

----------------------------------------------------------------------------
(* Home Assistant discovery: main.py:799-878.  cfg.homeassistant: self.ha_settings *)
(* is set and the discovery library is there.                                      *)

UpperCase == << "A", "B", "C", "D", "E", "F", "G", "H", "I", "J", "K", "L", "M",
                "N", "O", "P", "Q", "R", "S", "T", "U", "V", "W", "X", "Y", "Z" >>

LowerCase == << "a", "b", "c", "d", "e", "f", "g", "h", "i", "j", "k", "l", "m",
                "n", "o", "p", "q", "r", "s", "t", "u", "v", "w", "x", "y", "z" >>

\* str.lower() on ASCII letters
RECURSIVE Lower(_)
Lower(s) ==
    IF Len(s) = 0 THEN ""
    ELSE LET c == SubSeq(s, 1, 1)
             lc == IF \E i \in 1..26 : UpperCase[i] = c
                   THEN LowerCase[CHOOSE i \in 1..26 : UpperCase[i] = c]
                   ELSE c
         IN  lc \o Lower(SubSeq(s, 2, Len(s)))

\* main.py:519, main.py:806, main.py:852
EntityId(user, device) ==
    Replace(Replace(Lower(user \o "_" \o device), "-", "_"), " ", "_")

\* main.py:863
DisplayState(s) == IF s.status = "playing" THEN s.title ELSE "Not Playing"

\* main.py:799-844; ok: Sensor(...) returned (it raises otherwise, main.py:843)
CreateHaSensor(cfg, sensors, user, device, ok) ==
    IF ~cfg.homeassistant THEN sensors
    ELSE IF EntityId(user, device) \in sensors THEN sensors
    ELSE IF ok THEN sensors \cup {EntityId(user, device)}
    ELSE sensors

\* a mutation of the sensor update: the state is remembered before it is pushed
UpdateHaSensorRememberFirst(cfg, sensors, last_states, s, create_ok, push_ok) ==
    LET id == EntityId(s.user, s.device)
        sensors2 == CreateHaSensor(cfg, sensors, s.user, s.device, create_ok)
        state == DisplayState(s)
        quiet(ss) == [ sensors |-> ss, last_states |-> last_states,
                       pushed |-> FALSE, accepted |-> FALSE ]
    IN  IF ~cfg.homeassistant THEN quiet(sensors)
        ELSE IF id \notin sensors2 THEN quiet(sensors2)
        ELSE IF id \in DOMAIN last_states /\ last_states[id] = state THEN quiet(sensors2)
        ELSE [ sensors |-> sensors2, last_states |-> (id :> state) @@ last_states,
               pushed |-> TRUE, accepted |-> push_ok ]

\* main.py:846-878; push_ok: sensor.set_state returned (it raises otherwise, and the
\* except clause of line 877 is reached before line 873).
\* pushed: set_state was called; accepted: it returned.
UpdateHaSensor(cfg, sensors, last_states, s, create_ok, push_ok) ==
    LET id == EntityId(s.user, s.device)
        sensors2 == CreateHaSensor(cfg, sensors, s.user, s.device, create_ok)
        state == DisplayState(s)
        quiet(ss) == [ sensors |-> ss, last_states |-> last_states,
                       pushed |-> FALSE, accepted |-> FALSE ]
    IN  IF ~cfg.homeassistant THEN quiet(sensors)
        ELSE IF id \notin sensors2 THEN quiet(sensors2)
        ELSE IF id \in DOMAIN last_states /\ last_states[id] = state THEN quiet(sensors2)
        ELSE IF ~push_ok
             THEN [ sensors |-> sensors2, last_states |-> last_states,
                    pushed |-> TRUE, accepted |-> FALSE ]
        ELSE [ sensors |-> sensors2, last_states |-> (id :> state) @@ last_states,
               pushed |-> TRUE, accepted |-> TRUE ]

\* main.py:518-524, inside _track_user_and_device and behind its guard of line 504
HaStep(cfg, sensors, last_states, s, first_create_ok, create_ok, push_ok) ==
    IF ~cfg.tracking_enabled
    THEN [ sensors |-> sensors, last_states |-> last_states,
           pushed |-> FALSE, accepted |-> FALSE ]
    ELSE UpdateHaSensor(cfg, CreateHaSensor(cfg, sensors, s.user, s.device,
                                            first_create_ok),
                        last_states, s, create_ok, push_ok)

----------------------------------------------------------------------------
(* The reconciliation loop: PlexMQTTBridge.run, main.py:996-1101 *)

\* main.py:1058
SummaryDue(cfg, sessions) == Len(sessions) > 1 \/ cfg.publish_summary

\* main.py:465-478: the payload of the summary, without its timestamp
SessionSummary(sessions) ==
    [ active_sessions |-> Len(sessions),
      users |-> { sessions[i].user : i \in 1..Len(sessions) },
      sessions |-> [ i \in 1..Len(sessions) |->
                       [ user |-> sessions[i].user, title |-> sessions[i].title,
                         artist |-> sessions[i].artist, status |-> sessions[i].status,
                         session_key |-> sessions[i].session_key ] ] ]

\* a mutation of the stopped-state guard: the marker is not consulted
StoppedAlreadyPublishedNever(ls) == FALSE

\* main.py:1063  self.last_status.get('_stopped', False)
StoppedAlreadyPublished(ls) == StoppedMarked(ls)

\* a mutation of the update of last_status: an existing entry is kept (setdefault)
StoreLastStatusIfAbsent(ls, s) ==
    IF StatusKey(s) \in DOMAIN ls THEN ls ELSE (StatusKey(s) :> s) @@ ls

\* main.py:1052  self.last_status[session_key] = music_info
StoreLastStatus(ls, s) == (StatusKey(s) :> s) @@ ls

\* a mutation of the cleanup: the stopped flag stays
CleanupLastStatusKeepingFlag(ls, keys) ==
    Restrict(ls, { k \in DOMAIN ls : k \in keys \/ StartsWith(k, "_") })

\* main.py:1071-1078: pop '_stopped', then pop every key that is not current and
\* does not start with an underscore
CleanupLastStatus(ls, keys) ==
    LET popped == Restrict(ls, (DOMAIN ls) \ {"_stopped"}) IN
    Restrict(popped, { k \in DOMAIN popped : k \in keys \/ StartsWith(k, "_") })

----------------------------------------------------------------------------
(* What the environment supplies *)

\* The sessions Plex reports.  One playback of user "a" (session key 1) seen at three
\* positions and paused; one of a user whose name begins with an underscore; one of
\* the empty user name without a session key, titled "stopped", whose identity
\* string is "_stopped".
Pool ==
    { MkSession("a", "d1", <<1>>, "t", "x", "playing", off, 200000) : off \in {0, 5000, 5001} }
    \cup { MkSession("a", "d1", <<1>>, "t", "x", "paused", 5000, 200000),
           MkSession("_b", "d2", <<2>>, "u", "y", "playing", 5000, 200000),
           MkSession("", "d1", <<>>, "stopped", "x", "paused", 0, 200000) }

\* One session per user, for the runs that watch the tracking store: two users on
\* their own devices and a third user on the device of the first.
TrackingPool ==
    { MkSession("a", "d1", <<1>>, "t", "x", "playing", 5000, 200000),
      MkSession("_b", "d2", <<2>>, "u", "y", "playing", 5000, 200000),
      MkSession("c", "d1", <<3>>, "t", "x", "paused", 0, 200000) }

Batches(pool) == UNION { [1..n -> pool] : n \in 0..MaxBatch }

\* config['plex']['token'] of the configuration file
PlexToken == "plex-token"

\* config['mqtt']['password'] of the configuration file
MqttPassword == "mqtt-password"

\* config['lastfm']['api_secret'] of the configuration file
LastfmApiSecret == "lastfm-secret"

\* config['lastfm']['password'] of the configuration file
LastfmPassword == "lastfm-password"

\* password: <<>> when the configuration has no 'password' key
BaseConfig ==
    [ tracking_enabled |-> TRUE, auto_save |-> TRUE, web_enabled |-> TRUE,
      lastfm |-> TRUE, strategy |-> "all", priority_user |-> "", user_filter |-> {},
      topic_strategy |-> "single", topic |-> "nowplaying",
      homeassistant |-> FALSE, publish_summary |-> FALSE,
      token |-> PlexToken, password |-> << MqttPassword >>,
      lastfm_api_secret |-> LastfmApiSecret, lastfm_password |-> LastfmPassword ]

\* the configurations the loop is run under with tracking and Last.fm switched off
CoreConfigs ==
    { [BaseConfig EXCEPT !.tracking_enabled = FALSE, !.lastfm = FALSE,
                         !.web_enabled = web, !.strategy = st[1],
                         !.user_filter = st[2], !.topic_strategy = st[3]] :
        web \in BOOLEAN,
        st \in { <<"all", {}, "single">>,
                 <<"user_filter", {"a", ""}, "user_device_track">> } }

\* the configurations of the tracking store, the web interface and Last.fm off
TrackingConfigs ==
    { [BaseConfig EXCEPT !.web_enabled = FALSE, !.lastfm = FALSE,
                         !.tracking_enabled = tr[1], !.auto_save = tr[2]] :
        tr \in { <<TRUE, TRUE>>, <<TRUE, FALSE>>, <<FALSE, TRUE>> } }

\* what the persistence file holds when the process starts
InitialFiles ==
    { FileAbsent, FileJson(JsonList(<<"z">>), JsonList(<<"d1">>)) }

SaveOutcomes == {"ok", "open_error", "dump_error"}

\* the collaborator failures of the runs of the core loop: plex.sessions() raises
\* (main.py:270-275), mqtt_client.publish raises in the summary (main.py:493-495)
CoreFaults == {"fetch", "summary"}

NoObs == [ tracked |-> FALSE, repeat |-> FALSE, new_user |-> FALSE,
           new_device |-> FALSE, saved |-> FALSE, grew |-> FALSE, write |-> "none" ]

NoScrob == [ attempt |-> FALSE, dup |-> FALSE, called |-> FALSE,
             changed |-> FALSE, again |-> FALSE, accepted |-> FALSE, id |-> "" ]

\* attempt: the identity the last pass of the for loop published for, if it did;
\* failed: identity -> the record whose publish failed and was not made good since;
\* stopped: what became of the stopped record of this idle period
NoBus == [ attempt |-> <<>>, failed |-> EmptyMap, stopped |-> "none" ]

NoSession == MkSession("", "", <<>>, "", "", "", 0, 0)

\* no call of _update_ha_sensor yet.  before: the remembered state when the call began;
\* retry: the call before this one pushed the same state to the same entity and failed
NoHaCall == [ entity |-> "", state |-> "", before |-> <<>>, pushed |-> FALSE,
              accepted |-> FALSE, retry |-> FALSE ]

\* no request served yet
NoResponse == [ route |-> "none" ]

\* nothing handed to the bus by the aggregate step.  users, devices: "none", "sent"
\* (the publish succeeded) or "failed"; summary: << active_sessions >> of the summary
NoPubs == [ users |-> "none", devices |-> "none", summary |-> <<>> ]

\* main.py:60-63, and the histories of a process that has done nothing yet
InitRest ==
    /\ ha_sensors = {}
    /\ ha_last_states = EmptyMap
    /\ ha_entity = EmptyMap
    /\ ha_call = NoHaCall
    /\ fetch_failed = "no"
    /\ exit_cause = "none"
    /\ last_save = "none"
    /\ web_response = NoResponse
    /\ tick_sessions = EmptyMap
    /\ tick_pubs = NoPubs
    /\ bus = NoBus
    /\ routed_topic = ""
    /\ duration_ms = 0
    /\ duration_formatted = ""

\* PlexMQTTBridge.__init__, main.py:39-63, before _load_tracking_data
InitWith(configs, files, pool) ==
    /\ pc = "init"
    /\ config \in configs
    /\ file \in files
    /\ plex = pool
    /\ seen_users = {}
    /\ seen_devices = {}
    /\ users_devices_last_published = [users |-> <<>>, devices |-> <<>>]
    /\ last_status = EmptyMap
    /\ current_sessions = EmptyMap
    /\ scrobbled_tracks = <<>>
    /\ all_music_sessions = <<>>
    /\ music_sessions = <<>>
    /\ idx = 1
    /\ current_session_keys = {}
    /\ active_web_sessions = {}
    /\ clock = 0
    /\ prev_tick = "start"
    /\ tick_stopped_pubs = 0
    /\ last_published = EmptyMap
    /\ obs = NoObs
    /\ observed_pairs = {}
    /\ scrob = NoScrob
    /\ ever_scrobbled = {}
    /\ detect_in = NoSession
    /\ detect_out = "none"
    /\ InitRest

loop_vars == << all_music_sessions, music_sessions, idx, current_session_keys,
                active_web_sessions >>

history_vars == << prev_tick, tick_stopped_pubs, last_published, obs,
                   observed_pairs, scrob, ever_scrobbled >>

detect_vars == << detect_in, detect_out >>

ha_vars == << ha_sensors, ha_last_states, ha_entity, ha_call >>

exit_vars == << exit_cause, last_save >>

call_vars == << routed_topic, duration_ms, duration_formatted >>

tick_vars == << tick_sessions, tick_pubs, bus >>

\* main.py:72-73: the constructor loads the tracking data
Construct ==
    /\ pc = "init"
    /\ LET loaded == LoadTrackingData(config, file, seen_users, seen_devices) IN
        /\ seen_users' = loaded.users
        /\ seen_devices' = loaded.devices
    /\ pc' = "setup"
    /\ UNCHANGED << config, plex, file, users_devices_last_published, last_status,
                    current_sessions, scrobbled_tracks, clock >>
    /\ UNCHANGED << loop_vars, history_vars, detect_vars >>
    /\ UNCHANGED << ha_vars, exit_vars, call_vars, faults, tick_vars, fetch_failed, web_response >>

\* main.py:1000-1006: both connections are set up and the loop is entered.  The Plex
\* server accepts the token of the configuration file and no other (main.py:125-128,
\* main.py:138-140).
Setup ==
    /\ pc = "setup"
    /\ config.token = PlexToken
    /\ pc' = "fetch"
    /\ UNCHANGED << config, plex, file, seen_users, seen_devices, users_devices_last_published,
                    last_status, current_sessions, scrobbled_tracks, clock >>
    /\ UNCHANGED << loop_vars, history_vars, detect_vars >>
    /\ UNCHANGED << ha_vars, exit_vars, call_vars, faults, tick_vars, fetch_failed, web_response >>

\* main.py:1001-1006: a connection cannot be set up, sys.exit(1) before the try block
SetupFails ==
    /\ pc = "setup"
    /\ pc' = "exited"
    /\ UNCHANGED << config, plex, file, seen_users, seen_devices, users_devices_last_published,
                    last_status, current_sessions, scrobbled_tracks, clock >>
    /\ UNCHANGED << loop_vars, history_vars, detect_vars >>
    /\ UNCHANGED << ha_vars, exit_vars, call_vars, faults, tick_vars, fetch_failed, web_response >>

\* a mutation of the fetch: a failure of plex.sessions() is not turned into the empty list
GetMusicSessionsKeeping(ok, reported) == reported

\* main.py:255-275: the sessions Plex reports, or [] when plex.sessions() raised
GetMusicSessions(ok, reported) == IF ok THEN reported ELSE <<>>

\* main.py:1014-1021
Fetch ==
    /\ pc = "fetch"
    /\ \E reported \in Batches(plex),
          ok \in (IF "fetch" \in faults THEN BOOLEAN ELSE {TRUE}) :
        \E batch \in { GetMusicSessions(ok, reported) } :
        /\ all_music_sessions' = batch
        /\ music_sessions' = FilterSessions(config, batch)
        /\ pc' = IF FilterSessions(config, batch) # <<>> THEN "session" ELSE "idle"
        /\ fetch_failed' = IF ~ok THEN "now"
                           ELSE IF fetch_failed = "now" THEN "before" ELSE "no"
    /\ idx' = 1
    /\ current_session_keys' = {}
    /\ active_web_sessions' = {}
    /\ tick_stopped_pubs' = 0
    /\ tick_pubs' = NoPubs
    /\ UNCHANGED << config, plex, file, seen_users, seen_devices, users_devices_last_published,
                    last_status, current_sessions, scrobbled_tracks, clock >>
    /\ UNCHANGED << prev_tick, last_published, obs, observed_pairs, scrob,
                    ever_scrobbled >>
    /\ UNCHANGED detect_vars
    /\ UNCHANGED << ha_vars, exit_vars, call_vars, faults, tick_sessions, bus, web_response >>

\* main.py:1025-1052: one pass of the for loop.  When the change detector raises, the
\* exception leaves the loop (main.py:1092) and the finally block runs (main.py:1094-1101).
\* The clock is read by the scrobble step alone, so it moves only there.
ProcessSession ==
    /\ pc = "session"
    /\ LET s == music_sessions[idx]
           verdict == ShouldPublishUpdate(last_status, s)
           wants_save == config.tracking_enabled /\
                         (s.user \notin seen_users \/ s.device \notin seen_devices)
           may_scrobble == verdict # "raise" /\ s.status = "playing" /\ config.lastfm
           ha_on == config.tracking_enabled /\ config.homeassistant
           ha_id == EntityId(s.user, s.device)
       IN
       \E save_outcome \in (IF wants_save THEN SaveOutcomes ELSE {"ok"}),
          final_outcome \in (IF verdict = "raise" THEN SaveOutcomes ELSE {"ok"}),
          scrobble_ok \in (IF may_scrobble THEN BOOLEAN ELSE {TRUE}),
          now \in (IF may_scrobble THEN clock..MaxClock ELSE {clock}),
          first_create_ok \in (IF ha_on THEN BOOLEAN ELSE {TRUE}),
          create_ok \in (IF ha_on THEN BOOLEAN ELSE {TRUE}),
          push_ok \in (IF ha_on THEN BOOLEAN ELSE {TRUE}),
          publish_ok \in (IF verdict = "true" /\ "publish" \in faults THEN BOOLEAN
                          ELSE {TRUE}) :
         \E tr \in { TrackUserAndDevice(config, seen_users, seen_devices, file, s,
                                         save_outcome) },
            lf \in { LastfmStep(config, scrobbled_tracks, s, scrobble_ok, now) },
            ha \in { HaStep(config, ha_sensors, ha_last_states, s, first_create_ok,
                            create_ok, push_ok) } :
         /\ ha_sensors' = ha.sensors
         /\ ha_last_states' = ha.last_states
         /\ ha_entity' = IF ha.accepted THEN (ha_id :> DisplayState(s)) @@ ha_entity
                         ELSE ha_entity
         /\ ha_call' = IF ha_on
                       THEN [ entity |-> ha_id, state |-> DisplayState(s),
                              before |-> IF ha_id \in DOMAIN ha_last_states
                                         THEN << ha_last_states[ha_id] >> ELSE <<>>,
                              pushed |-> ha.pushed, accepted |-> ha.accepted,
                              retry |-> /\ ha_call.pushed /\ ~ha_call.accepted
                                        /\ ha_call.entity = ha_id
                                        /\ ha_call.state = DisplayState(s) ]
                       ELSE ha_call
         /\ current_session_keys' = current_session_keys \cup {StatusKey(s)}
         /\ active_web_sessions' = active_web_sessions \cup {WebSessionKey(s)}
         /\ seen_users' = tr.users
         /\ seen_devices' = tr.devices
         /\ obs' = IF tr.tracked
                   THEN [ tracked |-> TRUE,
                          repeat |-> <<s.user, s.device>> \in observed_pairs,
                          new_user |-> tr.new_user, new_device |-> tr.new_device,
                          saved |-> tr.saved,
                          write |-> IF tr.saved THEN save_outcome ELSE "none",
                          grew |-> tr.users # seen_users \/ tr.devices # seen_devices ]
                   ELSE NoObs
         /\ observed_pairs' = IF tr.tracked
                              THEN observed_pairs \cup {<<s.user, s.device>>}
                              ELSE observed_pairs
         /\ IF verdict = "raise"
            THEN /\ file' = SaveTrackingData(config, tr.users, tr.devices, tr.file,
                                             final_outcome)
                 /\ last_save' = SaveReport(config, final_outcome)
                 /\ exit_cause' = "error"
                 /\ pc' = "done"
                 /\ UNCHANGED << last_status, current_sessions, scrobbled_tracks, clock,
                                 idx, last_published, scrob, ever_scrobbled, bus >>
            ELSE /\ file' = tr.file
                 /\ UNCHANGED exit_vars
                 /\ last_published' = IF verdict = "true"
                                      THEN (StatusKey(s) :> s) @@ last_published
                                      ELSE last_published
                 /\ bus' = IF verdict = "true"
                           THEN [bus EXCEPT
                                   !.attempt = << StatusKey(s) >>,
                                   !.failed = IF publish_ok
                                              THEN Restrict(@, DOMAIN @ \ {StatusKey(s)})
                                              ELSE (StatusKey(s) :> s) @@ @]
                           ELSE [bus EXCEPT !.attempt = <<>>]
                 /\ scrobbled_tracks' = lf.ledger
                 /\ clock' = now
                 /\ scrob' = [ attempt |-> s.status = "playing",
                               dup |-> s.status = "playing" /\
                                       InLedger(scrobbled_tracks, TrackId(s)),
                               called |-> lf.called,
                               changed |-> lf.ledger # scrobbled_tracks,
                               again |-> lf.accepted /\ TrackId(s) \in ever_scrobbled,
                               accepted |-> lf.accepted, id |-> TrackId(s) ]
                 /\ ever_scrobbled' = IF lf.accepted
                                      THEN ever_scrobbled \cup {TrackId(s)}
                                      ELSE ever_scrobbled
                 /\ current_sessions' =
                        IF config.web_enabled
                        THEN UpdateSession(current_sessions, s,
                                           GetTopicForSession(config, s))
                        ELSE current_sessions
                 /\ last_status' = StoreLastStatus(last_status, s)
                 /\ idx' = idx + 1
                 /\ pc' = IF idx = Len(music_sessions) THEN "aggregate" ELSE "session"
    /\ UNCHANGED << config, plex, users_devices_last_published, all_music_sessions,
                    music_sessions, prev_tick, tick_stopped_pubs >>
    /\ UNCHANGED detect_vars
    /\ UNCHANGED << call_vars, faults, tick_sessions, tick_pubs, fetch_failed,
                    web_response >>

\* main.py:1054-1059: the users and devices lists, then the summary.  The summary's
\* mqtt_client.publish (main.py:493-495) is inside no try block: when it raises, the
\* exception leaves the loop (main.py:1092) and the finally block runs.
Aggregate ==
    /\ pc = "aggregate"
    /\ \E ok_users \in BOOLEAN, ok_devices \in BOOLEAN :
        \E r \in { PublishUsersAndDevices(config, users_devices_last_published,
                                          seen_users, seen_devices, ok_users,
                                          ok_devices) } :
            /\ users_devices_last_published' = r.udlp
            /\ tick_pubs' =
                 [ users |-> IF ~r.users_sent THEN "none"
                             ELSE IF ok_users THEN "sent" ELSE "failed",
                   devices |-> IF ~r.devices_sent THEN "none"
                               ELSE IF ok_devices THEN "sent" ELSE "failed",
                   summary |-> IF SummaryDue(config, all_music_sessions)
                               THEN << SessionSummary(all_music_sessions).active_sessions >>
                               ELSE <<>> ]
    /\ \E summary_raises \in (IF SummaryDue(config, all_music_sessions) /\
                                  "summary" \in faults
                               THEN BOOLEAN ELSE {FALSE}) :
        IF summary_raises
        THEN \E outcome \in (IF SavingEnabled(config) THEN SaveOutcomes ELSE {"ok"}) :
                /\ file' = SaveTrackingData(config, seen_users, seen_devices, file,
                                            outcome)
                /\ last_save' = SaveReport(config, outcome)
                /\ exit_cause' = "error"
                /\ pc' = "done"
        ELSE /\ pc' = "cleanup"
             /\ UNCHANGED << file, exit_vars >>
    /\ UNCHANGED << config, plex, seen_users, seen_devices, last_status,
                    current_sessions, scrobbled_tracks, clock >>
    /\ UNCHANGED << loop_vars, history_vars, detect_vars >>
    /\ UNCHANGED << ha_vars, call_vars, faults, tick_sessions, bus, fetch_failed, web_response >>

\* main.py:1061-1067: no session in the filtered batch
Idle ==
    /\ pc = "idle"
    /\ IF ~StoppedAlreadyPublished(last_status)
       THEN /\ tick_stopped_pubs' = tick_stopped_pubs + 1
            /\ \E publish_ok \in (IF "publish" \in faults THEN BOOLEAN ELSE {TRUE}) :
                 bus' = [bus EXCEPT !.stopped = IF publish_ok THEN "sent" ELSE "failed"]
            /\ last_status' = ("_stopped" :> StoppedFlag)
            /\ last_published' = EmptyMap
       ELSE UNCHANGED << tick_stopped_pubs, last_status, last_published, bus >>
    /\ pc' = "cleanup"
    /\ UNCHANGED << config, plex, file, seen_users, seen_devices, users_devices_last_published,
                    current_sessions, scrobbled_tracks, clock >>
    /\ UNCHANGED << loop_vars, prev_tick, obs, observed_pairs, scrob, ever_scrobbled >>
    /\ UNCHANGED detect_vars
    /\ UNCHANGED << ha_vars, exit_vars, call_vars, faults, tick_sessions, tick_pubs,
                    fetch_failed, web_response >>

\* main.py:1069-1086
Cleanup ==
    /\ pc = "cleanup"
    /\ IF current_session_keys # {}
       THEN /\ last_status' = CleanupLastStatus(last_status, current_session_keys)
            /\ last_published' =
                   Restrict(last_published,
                            DOMAIN CleanupLastStatus(last_status, current_session_keys))
            /\ current_sessions' =
                   IF config.web_enabled
                   THEN ClearInactiveSessions(current_sessions, active_web_sessions)
                   ELSE current_sessions
       ELSE /\ current_sessions' = IF config.web_enabled THEN EmptyMap
                                   ELSE current_sessions
            /\ UNCHANGED << last_status, last_published >>
    /\ tick_sessions' = current_sessions'
    /\ bus' = [bus EXCEPT !.attempt = <<>>,
                          !.stopped = IF current_session_keys # {} THEN "none" ELSE @]
    /\ pc' = "sleep"
    /\ UNCHANGED << config, plex, file, seen_users, seen_devices, users_devices_last_published,
                    scrobbled_tracks, clock >>
    /\ UNCHANGED << loop_vars, prev_tick, tick_stopped_pubs, obs, observed_pairs, scrob,
                    ever_scrobbled >>
    /\ UNCHANGED detect_vars
    /\ UNCHANGED << ha_vars, exit_vars, call_vars, faults, tick_pubs, fetch_failed, web_response >>

\* main.py:1088: the tick is over
Sleep ==
    /\ pc = "sleep"
    /\ prev_tick' = IF music_sessions # <<>> THEN "active" ELSE "idle"
    /\ pc' = "fetch"
    /\ UNCHANGED << config, plex, file, seen_users, seen_devices, users_devices_last_published,
                    last_status, current_sessions, scrobbled_tracks, clock >>
    /\ UNCHANGED << loop_vars, tick_stopped_pubs, last_published, obs, observed_pairs,
                    scrob, ever_scrobbled >>
    /\ UNCHANGED detect_vars
    /\ UNCHANGED << ha_vars, exit_vars, call_vars, faults, tick_vars, fetch_failed, web_response >>

InLoop == pc \in {"fetch", "session", "aggregate", "idle", "cleanup", "sleep"}

\* main.py:1090-1101: KeyboardInterrupt, then the finally block
Interrupt ==
    /\ InLoop
    /\ \E outcome \in (IF SavingEnabled(config) THEN SaveOutcomes ELSE {"ok"}) :
        /\ file' = SaveTrackingData(config, seen_users, seen_devices, file, outcome)
        /\ last_save' = SaveReport(config, outcome)
    /\ exit_cause' = "interrupt"
    /\ pc' = "done"
    /\ UNCHANGED << config, plex, seen_users, seen_devices, users_devices_last_published,
                    last_status, current_sessions, scrobbled_tracks, clock >>
    /\ UNCHANGED << loop_vars, history_vars, detect_vars >>
    /\ UNCHANGED << ha_vars, call_vars, faults, tick_vars, fetch_failed, web_response >>

Next ==
    \/ Construct
    \/ Setup
    \/ SetupFails
    \/ Fetch
    \/ ProcessSession
    \/ Aggregate
    \/ Idle
    \/ Cleanup
    \/ Sleep
    \/ Interrupt

\* the loop, its change detection and its cleanup
Init == InitWith(CoreConfigs, {FileAbsent}, Pool) /\ faults = CoreFaults

Spec == Init /\ [][Next]_vars

\* the loop with the tracking store
InitTracking == InitWith(TrackingConfigs, InitialFiles, TrackingPool) /\ faults = {}

SpecTracking == InitTracking /\ [][Next]_vars

----------------------------------------------------------------------------
(* The change detector alone: every pair of a session and a stored entry *)

DetectPool ==
    { MkSession(user, "d1", skey, title, artist, status, off, 200000) :
        user \in {"a", ""}, skey \in {<<1>>, <<>>}, title \in {"t", "stopped"},
        artist \in {"x", "y"}, status \in {"playing", "paused"},
        off \in {0, 1, 5000, 5001} }

\* last_status as the loop leaves it: empty, the stopped flag, or one stored session
DetectStores ==
    { EmptyMap, "_stopped" :> StoppedFlag }
    \cup { StoreLastStatus(EmptyMap, s) : s \in DetectPool }

InitDetect ==
    /\ pc = "detect"
    /\ config = BaseConfig
    /\ file = FileAbsent
    /\ plex = {}
    /\ seen_users = {}
    /\ seen_devices = {}
    /\ users_devices_last_published = [users |-> <<>>, devices |-> <<>>]
    /\ last_status \in DetectStores
    /\ current_sessions = EmptyMap
    /\ scrobbled_tracks = <<>>
    /\ all_music_sessions = <<>>
    /\ music_sessions = <<>>
    /\ idx = 1
    /\ current_session_keys = {}
    /\ active_web_sessions = {}
    /\ clock = 0
    /\ prev_tick = "start"
    /\ tick_stopped_pubs = 0
    /\ last_published = EmptyMap
    /\ obs = NoObs
    /\ observed_pairs = {}
    /\ scrob = NoScrob
    /\ ever_scrobbled = {}
    /\ detect_in \in DetectPool
    /\ detect_out = "none"
    /\ InitRest
    /\ faults = {}

\* main.py:1035: the loop asks the change detector
Detect ==
    /\ pc = "detect"
    /\ detect_out' = ShouldPublishUpdate(last_status, detect_in)
    /\ pc' = "detected"
    /\ UNCHANGED << config, plex, file, seen_users, seen_devices,
                    users_devices_last_published, last_status, current_sessions,
                    scrobbled_tracks, clock, detect_in >>
    /\ UNCHANGED << loop_vars, history_vars >>
    /\ UNCHANGED << ha_vars, exit_vars, call_vars, faults, tick_vars, fetch_failed, web_response >>

SpecDetect == InitDetect /\ [][Detect]_vars

----------------------------------------------------------------------------
(* The scrobble ledger over many polls: session keys are played in their order, *)
(* and a key played before may be met again at any later poll.                  *)

\* session keys that may be met again at a later poll, once they were played
ReplayKeys == {1, 2}

LedgerSession(k, status) == MkSession("a", "d1", <<k>>, "t", "x", status, 5000, 200000)

\* what the clock may read at a scrobble: it stood still since the last reading, or the
\* rest of the modelled time has passed
LedgerTimes == { c \in clock..MaxClock : c = clock \/ c = MaxClock }

\* keys are played in their order: the next one is the count of those accepted, plus one
NextKey == Cardinality(ever_scrobbled) + 1

LedgerKeysNow ==
    { k \in ReplayKeys : k < NextKey } \cup { k \in {NextKey} : k <= MaxKeys }

InitLedger ==
    /\ pc = "ledger"
    /\ config = BaseConfig
    /\ file = FileAbsent
    /\ plex = {}
    /\ seen_users = {}
    /\ seen_devices = {}
    /\ users_devices_last_published = [users |-> <<>>, devices |-> <<>>]
    /\ last_status = EmptyMap
    /\ current_sessions = EmptyMap
    /\ scrobbled_tracks = <<>>
    /\ all_music_sessions = <<>>
    /\ music_sessions = <<>>
    /\ idx = 1
    /\ current_session_keys = {}
    /\ active_web_sessions = {}
    /\ clock = 0
    /\ prev_tick = "start"
    /\ tick_stopped_pubs = 0
    /\ last_published = EmptyMap
    /\ obs = NoObs
    /\ observed_pairs = {}
    /\ scrob = NoScrob
    /\ ever_scrobbled = {}
    /\ detect_in = NoSession
    /\ detect_out = "none"
    /\ InitRest
    /\ faults = {}

\* main.py:1041-1044 for one session of one poll
LedgerPoll ==
    /\ pc = "ledger"
    /\ \E k \in LedgerKeysNow, status \in {"playing", "paused"} :
        LET s == LedgerSession(k, status)
            known == InLedger(scrobbled_tracks, TrackId(s))
            reaches_call == status = "playing" /\ ~known
        IN
        \E ok \in (IF reaches_call THEN BOOLEAN ELSE {TRUE}),
           now \in (IF reaches_call THEN LedgerTimes ELSE {clock}) :
          \E lf \in { LastfmStep(config, scrobbled_tracks, s, ok, now) } :
            /\ scrobbled_tracks' = lf.ledger
            /\ clock' = now
            /\ scrob' = [ attempt |-> status = "playing",
                          dup |-> status = "playing" /\ known,
                          called |-> lf.called,
                          changed |-> lf.ledger # scrobbled_tracks,
                          again |-> lf.accepted /\ TrackId(s) \in ever_scrobbled,
                          accepted |-> lf.accepted, id |-> TrackId(s) ]
            /\ ever_scrobbled' = IF lf.accepted THEN ever_scrobbled \cup {TrackId(s)}
                                 ELSE ever_scrobbled
    /\ UNCHANGED << pc, config, plex, file, seen_users, seen_devices,
                    users_devices_last_published, last_status, current_sessions >>
    /\ UNCHANGED << loop_vars, prev_tick, tick_stopped_pubs, last_published, obs,
                    observed_pairs, detect_in, detect_out >>
    /\ UNCHANGED << ha_vars, exit_vars, call_vars, faults, tick_vars, fetch_failed, web_response >>

SpecLedger == InitLedger /\ [][LedgerPoll]_vars

----------------------------------------------------------------------------
(* Single calls: a function of the bridge applied to arguments drawn at the start *)

\* a bridge as __init__ leaves it (main.py:39-63), at position p, holding arguments
InitCall(p, configs, files, user_sets, device_sets, batches, durations) ==
    /\ pc = p
    /\ config \in configs
    /\ file \in files
    /\ plex = {}
    /\ seen_users \in user_sets
    /\ seen_devices \in device_sets
    /\ users_devices_last_published = [users |-> <<>>, devices |-> <<>>]
    /\ last_status = EmptyMap
    /\ current_sessions = EmptyMap
    /\ scrobbled_tracks = <<>>
    /\ all_music_sessions \in batches
    /\ music_sessions = <<>>
    /\ idx = 1
    /\ current_session_keys = {}
    /\ active_web_sessions = {}
    /\ clock = 0
    /\ prev_tick = "start"
    /\ tick_stopped_pubs = 0
    /\ last_published = EmptyMap
    /\ obs = NoObs
    /\ observed_pairs = {}
    /\ scrob = NoScrob
    /\ ever_scrobbled = {}
    /\ detect_in = NoSession
    /\ detect_out = "none"
    /\ ha_sensors = {}
    /\ ha_last_states = EmptyMap
    /\ ha_entity = EmptyMap
    /\ ha_call = NoHaCall
    /\ faults = {}
    /\ fetch_failed = "no"
    /\ exit_cause = "none"
    /\ last_save = "none"
    /\ web_response = NoResponse
    /\ tick_sessions = EmptyMap
    /\ tick_pubs = NoPubs
    /\ bus = NoBus
    /\ routed_topic = ""
    /\ duration_ms \in durations
    /\ duration_formatted = ""

----------------------------------------------------------------------------
(* The tracking store saved by one process and loaded by the next *)

\* every setting of tracking.enabled and tracking.auto_save
StoreConfigs ==
    { [BaseConfig EXCEPT !.tracking_enabled = en, !.auto_save = au] :
        en \in BOOLEAN, au \in BOOLEAN }

StoreUsers == {"a", "_b", "a b"}

StoreDevices == {"d1", "d2"}

InitStore ==
    InitCall("store", StoreConfigs, InitialFiles \cup {FileInvalid},
             SUBSET StoreUsers, SUBSET StoreDevices, {<<>>}, {0})

\* main.py:649-652: the store is saved
ForceSave ==
    /\ pc = "store"
    /\ \E outcome \in (IF SavingEnabled(config) THEN SaveOutcomes ELSE {"ok"}) :
        /\ file' = SaveTrackingData(config, seen_users, seen_devices, file, outcome)
        /\ last_save' = SaveReport(config, outcome)
    /\ pc' = "saved"
    /\ UNCHANGED << config, plex, seen_users, seen_devices, users_devices_last_published,
                    last_status, current_sessions, scrobbled_tracks, clock >>
    /\ UNCHANGED << loop_vars, history_vars, detect_vars >>
    /\ UNCHANGED << ha_vars, exit_cause, call_vars, faults, tick_vars, fetch_failed, web_response >>

\* main.py:49-50 and main.py:72-73: a new process starts with empty sets and loads
Restart ==
    /\ pc = "saved"
    /\ LET loaded == LoadTrackingData(config, file, {}, {}) IN
        /\ seen_users' = loaded.users
        /\ seen_devices' = loaded.devices
    /\ pc' = "loaded"
    /\ UNCHANGED << config, plex, file, users_devices_last_published, last_status,
                    current_sessions, scrobbled_tracks, clock >>
    /\ UNCHANGED << loop_vars, history_vars, detect_vars >>
    /\ UNCHANGED << ha_vars, exit_vars, call_vars, faults, tick_vars, fetch_failed, web_response >>

SpecStore == InitStore /\ [][ForceSave \/ Restart]_vars

----------------------------------------------------------------------------
(* The topic router alone: one session routed under one configuration *)

RouteStrategies ==
    { "single", "per_user", "per_device", "hierarchical", "user_device_track",
      "per_session", "" }

RouteConfigs ==
    { [BaseConfig EXCEPT !.topic_strategy = st, !.topic = base] :
        st \in RouteStrategies, base \in {"nowplaying", "home/plex"} }

\* users and devices with and without the characters a topic gives a meaning to; a
\* device is met as the extractor leaves it (main.py:306)
RoutePool ==
    { MkSession(user, device, skey, "t", "x", "playing", 5000, 200000) :
        user \in {"bob", "a b", "a/b", "b+#$"}, device \in {"d1", "My_TV"},
        skey \in {<<42>>, <<>>} }

InitRoute ==
    InitCall("route", RouteConfigs, {FileAbsent}, {{}}, {{}},
             { <<s>> : s \in RoutePool }, {0})

\* main.py:1036: the loop asks for the topic of a session
Route ==
    /\ pc = "route"
    /\ routed_topic' = GetTopicForSession(config, all_music_sessions[1])
    /\ pc' = "routed"
    /\ UNCHANGED << config, plex, file, seen_users, seen_devices,
                    users_devices_last_published, last_status, current_sessions,
                    scrobbled_tracks, clock >>
    /\ UNCHANGED << loop_vars, history_vars, detect_vars >>
    /\ UNCHANGED << ha_vars, exit_vars, faults, tick_vars, fetch_failed, web_response,
                    duration_ms, duration_formatted >>

SpecRoute == InitRoute /\ [][Route]_vars

----------------------------------------------------------------------------
(* The session filter alone: one batch filtered under one configuration *)

\* sessions of a batch handed to the filter
MaxFilterBatch == 3

FilterPool ==
    { MkSession(user, "d1", <<1>>, "t", "x", "playing", off, 200000) :
        user \in {"a", "b", ""}, off \in {1000, 5000, 3000} }

FilterBatches == UNION { [1..n -> FilterPool] : n \in 0..MaxFilterBatch }

\* multi_session_handling: every strategy, one name that is none of them, a priority
\* user that is not configured, one that plays and one that does not
FilterConfigs ==
    { [BaseConfig EXCEPT !.strategy = st] :
        st \in {"all", "first_only", "most_recent", "newest"} }
    \cup { [BaseConfig EXCEPT !.strategy = "priority_user", !.priority_user = pu] :
             pu \in {"", "a", "zz"} }
    \cup { [BaseConfig EXCEPT !.strategy = "user_filter", !.user_filter = uf] :
             uf \in {{}, {"a"}} }

InitFilter ==
    InitCall("filter", FilterConfigs, {FileAbsent}, {{}}, {{}}, FilterBatches, {0})

\* main.py:1017
Filter ==
    /\ pc = "filter"
    /\ music_sessions' = FilterSessions(config, all_music_sessions)
    /\ pc' = "filtered"
    /\ UNCHANGED << config, plex, file, seen_users, seen_devices,
                    users_devices_last_published, last_status, current_sessions,
                    scrobbled_tracks, clock >>
    /\ UNCHANGED << all_music_sessions, idx, current_session_keys, active_web_sessions >>
    /\ UNCHANGED << history_vars, detect_vars >>
    /\ UNCHANGED << ha_vars, exit_vars, call_vars, faults, tick_vars, fetch_failed, web_response >>

SpecFilter == InitFilter /\ [][Filter]_vars

----------------------------------------------------------------------------
(* Duration formatting: PlexMQTTBridge._format_duration, main.py:378-391 *)

\* a mutation of the padding: the number is written as it is
TwoDigitsUnpadded(n) == ToString(n)

\* f"{n:02d}" for n >= 0
TwoDigits(n) == IF n < 10 THEN "0" \o ToString(n) ELSE ToString(n)

FormatDuration(milliseconds) ==
    IF milliseconds <= 0 THEN "0:00"
    ELSE LET total_seconds == milliseconds \div 1000
             hours == total_seconds \div 3600
             minutes == (total_seconds % 3600) \div 60
             seconds == total_seconds % 60
         IN  IF hours > 0
             THEN ToString(hours) \o ":" \o TwoDigits(minutes) \o ":" \o TwoDigits(seconds)
             ELSE ToString(minutes) \o ":" \o TwoDigits(seconds)
----------------------------------------------------------------------------
(* Duration formatting alone: one value formatted *)

\* every whole second up to this one is formatted
MaxDurationSec == 75

\* seconds around the minute and hour boundaries, and long tracks
BoundarySeconds == {599, 600, 3599, 3600, 3601, 3661, 35999, 36000, 86399, 360000}

\* milliseconds at the start and at the end of each of these seconds, and negative ones
DurationInputs ==
    { sec * 1000 + ms : sec \in (0..MaxDurationSec) \cup BoundarySeconds, ms \in {0, 999} }
    \cup {-1, -1000, -3661000}

InitFormat ==
    InitCall("format", {BaseConfig}, {FileAbsent}, {{}}, {{}}, {<<>>}, DurationInputs)

\* main.py:368-370: the extractor formats a duration
Format ==
    /\ pc = "format"
    /\ duration_formatted' = FormatDuration(duration_ms)
    /\ pc' = "formatted"
    /\ UNCHANGED << config, plex, file, seen_users, seen_devices,
                    users_devices_last_published, last_status, current_sessions,
                    scrobbled_tracks, clock >>
    /\ UNCHANGED << loop_vars, history_vars, detect_vars >>
    /\ UNCHANGED << ha_vars, exit_vars, faults, tick_vars, fetch_failed, web_response,
                    routed_topic, duration_ms >>

SpecFormat == InitFormat /\ [][Format]_vars

----------------------------------------------------------------------------
(* The loop with Home Assistant discovery switched on *)

\* One playback of user "a" on device "d1", playing and paused, and one of user "A" on
\* the same device, whose entity id is that of user "a".
HaPool ==
    { MkSession("a", "d1", <<1>>, "t", "x", "playing", 5000, 200000),
      MkSession("a", "d1", <<1>>, "t", "x", "paused", 5000, 200000),
      MkSession("A", "d1", <<2>>, "v", "y", "playing", 5000, 200000) }

\* tracking on (main.py:504), discovery on, the web interface and Last.fm off
HaConfigs ==
    { [BaseConfig EXCEPT !.web_enabled = FALSE, !.lastfm = FALSE, !.auto_save = FALSE,
                         !.homeassistant = TRUE] }

InitHA == InitWith(HaConfigs, {FileAbsent}, HaPool) /\ faults = {}

SpecHA == InitHA /\ [][Next]_vars

----------------------------------------------------------------------------
(* The web interface: WebInterface.setup_routes, web_interface.py:21-129.  Its server *)
(* thread is started by the constructor (main.py:77-80), so a request is served     *)
(* between any two steps of the bridge from the end of the constructor on.          *)

\* the value api_config writes over a credential
Hidden == "***HIDDEN***"

WebPool ==
    { MkSession("a", "d1", <<1>>, "t", "x", "playing", 5000, 200000) }

\* the web interface on; the configuration file with and without an MQTT password
WebConfigs ==
    { [BaseConfig EXCEPT !.lastfm = FALSE, !.password = pw] :
        pw \in { << MqttPassword >>, <<>> } }

InitWeb == InitWith(WebConfigs, {FileAbsent}, WebPool) /\ faults = {}

\* the server thread is there and the process has not ended
Serving == config.web_enabled /\ pc \notin {"init", "exited", "done"}

\* main.py:576-583
GetTrackedUsersAndDevices(users, devices) ==
    [ users |-> SetToSeq(users), devices |-> SetToSeq(devices),
      users_count |-> Cardinality(users), devices_count |-> Cardinality(devices) ]

\* the variables a request that only reads leaves alone
bridge_vars == << config, plex, file, seen_users, seen_devices,
                  users_devices_last_published, last_status, current_sessions,
                  scrobbled_tracks, clock, pc >>

\* web_interface.py:29-56
ApiStatus ==
    /\ Serving
    /\ web_response' =
         [ route |-> "status",
           server_connected |-> pc # "setup",
           topic_strategy |-> config.topic_strategy,
           active_sessions_count |->
               Cardinality({ k \in DOMAIN current_sessions :
                               current_sessions[k].status \in {"playing", "paused"} }),
           total_sessions |-> Cardinality(DOMAIN current_sessions),
           tracked_users_count |->
               GetTrackedUsersAndDevices(seen_users, seen_devices).users_count,
           tracked_devices_count |->
               GetTrackedUsersAndDevices(seen_users, seen_devices).devices_count,
           homeassistant_discovered_entities |-> Cardinality(ha_sensors) ]
    /\ UNCHANGED bridge_vars
    /\ UNCHANGED << loop_vars, history_vars, detect_vars >>
    /\ UNCHANGED << ha_vars, exit_vars, call_vars, faults, tick_vars, fetch_failed >>

\* web_interface.py:58-69
ApiSessions ==
    /\ Serving
    /\ LET active == { k \in DOMAIN current_sessions :
                         current_sessions[k].status \in {"playing", "paused"} }
       IN  web_response' = [ route |-> "sessions",
                             sessions |-> Restrict(current_sessions, active),
                             count |-> Cardinality(active) ]
    /\ UNCHANGED bridge_vars
    /\ UNCHANGED << loop_vars, history_vars, detect_vars >>
    /\ UNCHANGED << ha_vars, exit_vars, call_vars, faults, tick_vars, fetch_failed >>

\* web_interface.py:71-79
ApiUsersDevices ==
    /\ Serving
    /\ LET t == GetTrackedUsersAndDevices(seen_users, seen_devices)
       IN  web_response' = [ route |-> "users-devices",
                             users |-> t.users, devices |-> t.devices,
                             users_count |-> t.users_count,
                             devices_count |-> t.devices_count,
                             persistence_enabled |-> config.tracking_enabled /\
                                                     config.auto_save ]
    /\ UNCHANGED bridge_vars
    /\ UNCHANGED << loop_vars, history_vars, detect_vars >>
    /\ UNCHANGED << ha_vars, exit_vars, call_vars, faults, tick_vars, fetch_failed >>

\* web_interface.py:81-96: _save_tracking_data raises nothing (main.py:645-647), so
\* the answer is the success in every case
ApiSaveTracking ==
    /\ Serving
    /\ \E outcome \in (IF SavingEnabled(config) THEN SaveOutcomes ELSE {"ok"}) :
        /\ file' = SaveTrackingData(config, seen_users, seen_devices, file, outcome)
        /\ last_save' = SaveReport(config, outcome)
    /\ web_response' = [ route |-> "save", success |-> TRUE ]
    /\ UNCHANGED << config, plex, seen_users, seen_devices, users_devices_last_published,
                    last_status, current_sessions, scrobbled_tracks, clock, pc >>
    /\ UNCHANGED << loop_vars, history_vars, detect_vars >>
    /\ UNCHANGED << ha_vars, exit_cause, call_vars, faults, tick_vars, fetch_failed >>

\* web_interface.py:98-106
ApiUsers ==
    /\ Serving
    /\ LET t == GetTrackedUsersAndDevices(seen_users, seen_devices)
       IN  web_response' = [ route |-> "users", users |-> t.users,
                             count |-> t.users_count ]
    /\ UNCHANGED bridge_vars
    /\ UNCHANGED << loop_vars, history_vars, detect_vars >>
    /\ UNCHANGED << ha_vars, exit_vars, call_vars, faults, tick_vars, fetch_failed >>

\* web_interface.py:108-116
ApiDevices ==
    /\ Serving
    /\ LET t == GetTrackedUsersAndDevices(seen_users, seen_devices)
       IN  web_response' = [ route |-> "devices", devices |-> t.devices,
                             count |-> t.devices_count ]
    /\ UNCHANGED bridge_vars
    /\ UNCHANGED << loop_vars, history_vars, detect_vars >>
    /\ UNCHANGED << ha_vars, exit_vars, call_vars, faults, tick_vars, fetch_failed >>

\* web_interface.py:121-127: dict.copy() copies the top level alone, so
\* config_copy['plex'] and config_copy['mqtt'] are the dictionaries of the bridge's
\* configuration, and the two assignments write into them
SanitizeConfig(cfg) ==
    [ cfg EXCEPT !.token = Hidden,
                 !.password = IF cfg.password # <<>> THEN << Hidden >> ELSE <<>> ]

\* web_interface.py:118-129
ApiConfig ==
    /\ Serving
    /\ config' = SanitizeConfig(config)
    /\ web_response' = [ route |-> "config", config |-> SanitizeConfig(config) ]
    /\ UNCHANGED << plex, file, seen_users, seen_devices, users_devices_last_published,
                    last_status, current_sessions, scrobbled_tracks, clock, pc >>
    /\ UNCHANGED << loop_vars, history_vars, detect_vars >>
    /\ UNCHANGED << ha_vars, exit_vars, call_vars, faults, tick_vars, fetch_failed >>

NextWeb ==
    \/ Next
    \/ ApiStatus
    \/ ApiSessions
    \/ ApiUsersDevices
    \/ ApiSaveTracking
    \/ ApiUsers
    \/ ApiDevices
    \/ ApiConfig

SpecWeb == InitWeb /\ [][NextWeb]_vars

----------------------------------------------------------------------------
(* The session list read while the loop runs: api_sessions between the steps of run() *)

\* user "a" through two titles on one device, and user "b" on another
ReadPool ==
    { MkSession("a", "d1", <<1>>, "t", "x", "playing", 5000, 200000),
      MkSession("a", "d1", <<1>>, "u", "x", "playing", 5000, 200000),
      MkSession("b", "d2", <<2>>, "v", "y", "playing", 5000, 200000) }

\* the web interface on, tracking and Last.fm off
ReadConfigs ==
    { [BaseConfig EXCEPT !.tracking_enabled = FALSE, !.lastfm = FALSE] }

InitRead == InitWith(ReadConfigs, {FileAbsent}, ReadPool) /\ faults = {}

\* the Flask thread takes no lock and run() takes none (main.py:1046-1049,
\* main.py:1080-1086): a request is served between any two steps of a tick
NextRead ==
    \/ Next
    \/ ApiSessions

SpecRead == InitRead /\ [][NextRead]_vars

----------------------------------------------------------------------------
(* A save in its two steps, and the process killed between them *)

\* main.py:640: open(persistence_file, 'w') truncates the file before anything is written
OpenForWrite(f) == FileInvalid

\* main.py:641: json.dump has written the document and the file is closed
DumpTrackingData(users, devices) ==
    FileJson(JsonList(SetToSeq(users)), JsonList(SetToSeq(devices)))

\* tracking and auto-save on: _save_tracking_data passes its guard of lines 626-628
CrashConfigs == { BaseConfig }

\* the state an earlier save left on disk
CrashFile == FileJson(JsonList(<<"a">>), JsonList(<<"d1">>))

\* the sets have grown since that save: they hold what the file holds, and more
InitCrash ==
    InitCall("store", CrashConfigs, {CrashFile},
             { {"a"} \cup more : more \in SUBSET {"_b", "a b", "c", "e"} },
             { {"d1"} \cup more : more \in SUBSET {"d2", "d3"} }, {<<>>}, {0})

\* main.py:640
SaveOpen ==
    /\ pc = "store"
    /\ SavingEnabled(config)
    /\ file' = OpenForWrite(file)
    /\ pc' = "writing"
    /\ UNCHANGED << config, plex, seen_users, seen_devices, users_devices_last_published,
                    last_status, current_sessions, scrobbled_tracks, clock >>
    /\ UNCHANGED << loop_vars, history_vars, detect_vars >>
    /\ UNCHANGED << ha_vars, exit_vars, call_vars, faults, tick_vars, fetch_failed,
                    web_response >>

\* main.py:641-643
SaveDump ==
    /\ pc = "writing"
    /\ file' = DumpTrackingData(seen_users, seen_devices)
    /\ last_save' = "ok"
    /\ pc' = "saved"
    /\ UNCHANGED << config, plex, seen_users, seen_devices, users_devices_last_published,
                    last_status, current_sessions, scrobbled_tracks, clock >>
    /\ UNCHANGED << loop_vars, history_vars, detect_vars >>
    /\ UNCHANGED << ha_vars, exit_cause, call_vars, faults, tick_vars, fetch_failed,
                    web_response >>

\* the process is killed between the two steps, and a new one starts: main.py:49-50
\* and main.py:72-73
CrashRestart ==
    /\ pc = "writing"
    /\ LET loaded == LoadTrackingData(config, file, {}, {}) IN
        /\ seen_users' = loaded.users
        /\ seen_devices' = loaded.devices
    /\ exit_cause' = "crash"
    /\ pc' = "loaded"
    /\ UNCHANGED << config, plex, file, users_devices_last_published, last_status,
                    current_sessions, scrobbled_tracks, clock, last_save >>
    /\ UNCHANGED << loop_vars, history_vars, detect_vars >>
    /\ UNCHANGED << ha_vars, call_vars, faults, tick_vars, fetch_failed, web_response >>

NextCrash ==
    \/ SaveOpen
    \/ SaveDump
    \/ CrashRestart
    \/ Restart

SpecCrash == InitCrash /\ [][NextCrash]_vars

----------------------------------------------------------------------------
(* The load at startup alone: every shape of the tracking file *)

\* what the file may hold under the key 'users' and under the key 'devices'
LoadUsersValues ==
    { JsonList(SetToSeq(us)) : us \in SUBSET StoreUsers } \cup { JsonMissing, JsonBad }

LoadDevicesValues ==
    { JsonList(SetToSeq(ds)) : ds \in SUBSET StoreDevices } \cup { JsonMissing, JsonBad }

LoadFiles ==
    { FileAbsent, FileInvalid }
    \cup { FileJson(u, d) : u \in LoadUsersValues, d \in LoadDevicesValues }

LoadConfigs ==
    { [BaseConfig EXCEPT !.tracking_enabled = en] : en \in BOOLEAN }

InitLoad == InitCall("init", LoadConfigs, LoadFiles, {{}}, {{}}, {<<>>}, {0})

SpecLoad == InitLoad /\ [][Construct]_vars

----------------------------------------------------------------------------
(* The scrobble conditions alone: one session polled twice *)

\* sessions with and without artist and title, playing and paused, below, at and above
\* the minimal duration, below, at and above the threshold of progress
ScrobblePool ==
    { MkSession("a", "d1", <<1>>, title, artist, status, off, duration) :
        title \in {"", "t"}, artist \in {"", "x"}, status \in {"playing", "paused"},
        off \in {0, 140, 150, 1000},
        duration \in { MinDurationSec * 1000 - 1, MinDurationSec * 1000, 200000 } }

\* Last.fm initialised (main.py:697) or not
ScrobbleConfigs == { [BaseConfig EXCEPT !.lastfm = on] : on \in BOOLEAN }

InitScrobble ==
    InitCall("scrobble", ScrobbleConfigs, {FileAbsent}, {{}}, {{}},
             { << s >> : s \in ScrobblePool }, {0})

\* main.py:1041-1044 for the session, in a first poll and in a second one
ScrobblePoll ==
    /\ pc \in {"scrobble", "scrobbled"}
    /\ LET s == all_music_sessions[1] IN
       \E ok \in BOOLEAN :
         \E lf \in { LastfmStep(config, scrobbled_tracks, s, ok, clock) } :
            /\ scrobbled_tracks' = lf.ledger
            /\ scrob' = [ attempt |-> s.status = "playing",
                          dup |-> s.status = "playing" /\
                                  InLedger(scrobbled_tracks, TrackId(s)),
                          called |-> lf.called,
                          changed |-> lf.ledger # scrobbled_tracks,
                          again |-> lf.accepted /\ TrackId(s) \in ever_scrobbled,
                          accepted |-> lf.accepted, id |-> TrackId(s) ]
            /\ ever_scrobbled' = IF lf.accepted THEN ever_scrobbled \cup {TrackId(s)}
                                 ELSE ever_scrobbled
    /\ pc' = "scrobbled"
    /\ UNCHANGED << config, plex, file, seen_users, seen_devices,
                    users_devices_last_published, last_status, current_sessions, clock >>
    /\ UNCHANGED << loop_vars, prev_tick, tick_stopped_pubs, last_published, obs,
                    observed_pairs, detect_in, detect_out >>
    /\ UNCHANGED << ha_vars, exit_vars, call_vars, faults, tick_vars, fetch_failed,
                    web_response >>

SpecScrobble == InitScrobble /\ [][ScrobblePoll]_vars

----------------------------------------------------------------------------
(* The loop with the summary switched on and off *)

SummaryPool ==
    { MkSession("a", "d1", <<1>>, "t", "x", "playing", 5000, 200000),
      MkSession("b", "d2", <<2>>, "u", "y", "paused", 5000, 200000) }

\* config.get('publish_summary', False), main.py:1058; tracking, the web interface and
\* Last.fm off
SummaryConfigs ==
    { [BaseConfig EXCEPT !.tracking_enabled = FALSE, !.lastfm = FALSE,
                         !.web_enabled = FALSE, !.publish_summary = on] :
        on \in BOOLEAN }

InitSummary == InitWith(SummaryConfigs, {FileAbsent}, SummaryPool) /\ faults = {}

SpecSummary == InitSummary /\ [][Next]_vars

----------------------------------------------------------------------------
(* The device clean-up alone: one session as Plex reports it, its device cleaned *)

\* device names with and without the characters the clean-up touches, alone, doubled
\* and next to each other
DeviceNames ==
    { "d1", "My TV", "a/b", "a#b", "a+b", "a$b", " ", "/", "#", "+", "$", "",
      "a  b", "a//b", "a /b", "a#+$b", "$#+", "# +", "a_b", "_", "$ $", "#/#",
      "Living Room/TV #1", "++", "a$ b", "+a", "a+", "/a/", " a ", "a_$b" }

\* the session before the extractor has cleaned its device
RawSessions ==
    { MkSession(user, name, <<1>>, "t", "x", status, 5000, 200000) :
        user \in {"a", "b"}, name \in DeviceNames, status \in {"playing", "paused"} }

InitClean ==
    InitCall("clean", {BaseConfig}, {FileAbsent}, {{}}, {{}},
             { << s >> : s \in RawSessions }, {0})

\* main.py:305-306 and main.py:327: the extractor stores the cleaned name as 'device'
Clean ==
    /\ pc = "clean"
    /\ music_sessions' =
         << [ all_music_sessions[1] EXCEPT
                !.device = CleanDeviceName(all_music_sessions[1].device) ] >>
    /\ pc' = "cleaned"
    /\ UNCHANGED << config, plex, file, seen_users, seen_devices,
                    users_devices_last_published, last_status, current_sessions,
                    scrobbled_tracks, clock >>
    /\ UNCHANGED << all_music_sessions, idx, current_session_keys, active_web_sessions >>
    /\ UNCHANGED << history_vars, detect_vars >>
    /\ UNCHANGED << ha_vars, exit_vars, call_vars, faults, tick_vars, fetch_failed,
                    web_response >>

SpecClean == InitClean /\ [][Clean]_vars

----------------------------------------------------------------------------
(* The extractor: PlexMQTTBridge._extract_music_info_from_session, main.py:277-376, *)
(* and the loop of _get_music_sessions around it, main.py:257-268.  An attribute of *)
(* a Plex object is missing, None, or a string.                                     *)

Missing == [tag |-> "missing", val |-> ""]

NoneValue == [tag |-> "none", val |-> ""]

Str(v) == [tag |-> "str", val |-> v]

\* hasattr(obj, name)
HasAttr(d) == d.tag # "missing"

\* a session as plex.sessions() returns it: has_players is `session.players` being
\* there and not empty, p_* are the attributes of session.players[0], s_player_title
\* is session.player.title, s_device is session.device
MkRaw(type, has_players, state, p_title, p_device, p_product, p_platform, s_player_title, s_device, user, skey, title, artist, view_offset, duration) ==
    [ type |-> type, has_players |-> has_players, state |-> state,
      p_title |-> p_title, p_device |-> p_device, p_product |-> p_product,
      p_platform |-> p_platform, s_player_title |-> s_player_title,
      s_device |-> s_device, user |-> user, session_key |-> skey, title |-> title,
      artist |-> artist, viewOffset |-> view_offset, duration |-> duration ]

\* main.py:281-303: device_name before it is cleaned
ResolveDeviceName(raw) ==
    LET from_player ==
            IF raw.has_players
            THEN IF HasAttr(raw.p_title) THEN raw.p_title
                 ELSE IF HasAttr(raw.p_device) THEN raw.p_device
                 ELSE IF HasAttr(raw.p_product) THEN raw.p_product
                 ELSE IF HasAttr(raw.p_platform) THEN raw.p_platform
                 ELSE Str("unknown")
            ELSE Str("unknown")
    IN  IF from_player = Str("unknown")
        THEN IF HasAttr(raw.s_player_title) THEN raw.s_player_title
             ELSE IF HasAttr(raw.s_device) THEN raw.s_device
             ELSE from_player
        ELSE from_player

\* main.py:277-376: << info >>, or << >> for None.  device_name.replace raises on None
\* (main.py:306) and the except clause of line 374 returns None.
ExtractMusicInfoFromSession(raw) ==
    LET device_name == ResolveDeviceName(raw) IN
    IF device_name.tag # "str" THEN << >>
    ELSE << ("device_original" :> device_name.val)
            @@ MkSession(raw.user, CleanDeviceName(device_name.val), raw.session_key,
                         raw.title, raw.artist,
                         IF raw.has_players THEN raw.state ELSE "unknown",
                         raw.viewOffset, raw.duration) >>

\* a mutation of the loop: a record that gives no session ends the batch
RECURSIVE ExtractBatchStopAtBad(_)
ExtractBatchStopAtBad(raws) ==
    IF raws = << >> THEN << >>
    ELSE IF raws[1].type # "track" THEN ExtractBatchStopAtBad(Tail(raws))
    ELSE IF ExtractMusicInfoFromSession(raws[1]) = << >> THEN << >>
    ELSE ExtractMusicInfoFromSession(raws[1]) \o ExtractBatchStopAtBad(Tail(raws))

\* main.py:259-268: the loop over the sessions Plex returned
RECURSIVE ExtractBatch(_)
ExtractBatch(raws) ==
    IF raws = << >> THEN << >>
    ELSE (IF raws[1].type = "track" THEN ExtractMusicInfoFromSession(raws[1])
          ELSE << >>)
         \o ExtractBatch(Tail(raws))

----------------------------------------------------------------------------
(* The device resolution alone: one session of Plex, every shape of its descriptors *)

\* a descriptor is missing, None, the empty string or a name of its own
Descriptor(name) == { Missing, NoneValue, Str(""), Str(name) }

DeviceRaws ==
    { MkRaw("track", hp, "playing", pt, pd, pp, pl, st, sd, "a", <<1>>, "t", "x",
            5000, 200000) :
        hp \in BOOLEAN, pt \in Descriptor("Title"), pd \in Descriptor("Device"),
        pp \in Descriptor("Product"), pl \in Descriptor("Platform"),
        st \in Descriptor("Player"), sd \in Descriptor("Session") }

InitDevice ==
    InitCall("extract", {BaseConfig}, {FileAbsent}, {{}}, {{}},
             { << raw >> : raw \in DeviceRaws }, {0})

\* main.py:259-268: the sessions of Plex are extracted
Extract ==
    /\ pc = "extract"
    /\ music_sessions' = ExtractBatch(all_music_sessions)
    /\ pc' = "extracted"
    /\ UNCHANGED << config, plex, file, seen_users, seen_devices,
                    users_devices_last_published, last_status, current_sessions,
                    scrobbled_tracks, clock >>
    /\ UNCHANGED << all_music_sessions, idx, current_session_keys, active_web_sessions >>
    /\ UNCHANGED << history_vars, detect_vars >>
    /\ UNCHANGED << ha_vars, exit_vars, call_vars, faults, tick_vars, fetch_failed,
                    web_response >>

SpecDevice == InitDevice /\ [][Extract]_vars

----------------------------------------------------------------------------
(* The loop of _get_music_sessions over batches in which a record cannot be extracted *)

MaxRaw == 3

\* two tracks that extract, a track whose player title is None, and a film
RawPool ==
    { MkRaw("track", TRUE, "playing", Str("d1"), Missing, Missing, Missing, Missing,
            Missing, "a", <<1>>, "t", "x", 5000, 200000),
      MkRaw("track", TRUE, "paused", Missing, Str("d 2"), Missing, Missing, Missing,
            Missing, "b", <<2>>, "u", "y", 0, 200000),
      MkRaw("track", TRUE, "playing", NoneValue, Str("d3"), Missing, Missing, Missing,
            Missing, "c", <<3>>, "v", "z", 0, 200000),
      MkRaw("movie", TRUE, "playing", Str("d4"), Missing, Missing, Missing, Missing,
            Missing, "d", <<4>>, "w", "", 0, 200000) }

RawBatches ==
    UNION { [1..n -> RawPool] : n \in 0..MaxRaw }

InitExtract ==
    InitCall("extract", {BaseConfig}, {FileAbsent}, {{}}, {{}}, RawBatches, {0})

SpecExtract == InitExtract /\ [][Extract]_vars

----------------------------------------------------------------------------
(* The configuration endpoint alone, over configurations that differ in credentials *)

\* the configuration files: two values of each credential, the MQTT password also
\* absent and the Last.fm credentials also empty
SecretConfigs ==
    { [BaseConfig EXCEPT !.token = tk, !.password = pw, !.lastfm_api_secret = se,
                         !.lastfm_password = lp, !.lastfm = lf] :
        tk \in { PlexToken, "plex-token-2" },
        pw \in { <<>>, << MqttPassword >>, << "mqtt-password-2" >> },
        se \in { "", LastfmApiSecret, "lastfm-secret-2" },
        lp \in { "", LastfmPassword, "lastfm-password-2" },
        lf \in BOOLEAN }

InitConfig ==
    InitCall("sleep", SecretConfigs, {FileAbsent}, {{}}, {{}}, {<<>>}, {0})

SpecConfig == InitConfig /\ [][ApiConfig]_vars

----------------------------------------------------------------------------
(* The identity string of a session alone: the loop stores a batch of two sessions *)

\* user names with and without an underscore and the empty one, sessions with and
\* without a session key, titles with and without an underscore
KeyPool ==
    { MkSession(user, "d1", skey, title, "x", "playing", 0, 200000) :
        user \in {"a", "a_b", "", "_b"}, skey \in {<<>>, <<1>>},
        title \in {"c", "b_c", "stopped"} }

InitKey ==
    InitCall("session", {BaseConfig}, {FileAbsent}, {{}}, {{}},
             [1..2 -> KeyPool], {0})

\* main.py:1052 for every session of the batch, in its order
RECURSIVE StoreBatch(_, _)
StoreBatch(ls, batch) ==
    IF batch = << >> THEN ls
    ELSE StoreBatch(StoreLastStatus(ls, batch[1]), Tail(batch))

\* main.py:1024-1052: the identity strings of the batch are collected and every
\* session is stored under its own
StoreSessions ==
    /\ pc = "session"
    /\ current_session_keys' = { StatusKey(all_music_sessions[i]) :
                                   i \in 1..Len(all_music_sessions) }
    /\ last_status' = StoreBatch(last_status, all_music_sessions)
    /\ pc' = "stored"
    /\ UNCHANGED << config, plex, file, seen_users, seen_devices,
                    users_devices_last_published, current_sessions,
                    scrobbled_tracks, clock >>
    /\ UNCHANGED << all_music_sessions, music_sessions, idx, active_web_sessions >>
    /\ UNCHANGED << history_vars, detect_vars >>
    /\ UNCHANGED << ha_vars, exit_vars, call_vars, faults, tick_vars, fetch_failed,
                    web_response >>

SpecKey == InitKey /\ [][StoreSessions]_vars

----------------------------------------------------------------------------
(* The loop with a bus that may refuse a record: _publish_to_mqtt returns False *)
(* (main.py:900-942) for any session record or stopped record handed to it.      *)

BusPool ==
    { MkSession("a", "d1", <<1>>, "t", "x", "playing", 5000, 200000),
      MkSession("b", "d2", <<2>>, "u", "y", "paused", 5000, 200000) }

\* tracking, the web interface and Last.fm off
BusConfigs ==
    { [BaseConfig EXCEPT !.tracking_enabled = FALSE, !.lastfm = FALSE,
                         !.web_enabled = FALSE] }

InitBus == InitWith(BusConfigs, {FileAbsent}, BusPool) /\ faults = {"publish"}

SpecBus == InitBus /\ [][Next]_vars

----------------------------------------------------------------------------
(* The loop left running: no interrupt arrives and the connections are set up, so *)
(* run() goes from tick to tick for ever (main.py:1012, main.py:1088).             *)

\* one playback of user "a" on device "d1", playing and paused
GonePool ==
    { MkSession("a", "d1", <<1>>, "t", "x", "playing", 5000, 200000),
      MkSession("a", "d1", <<1>>, "t", "x", "paused", 5000, 200000) }

InitGone == InitWith(HaConfigs, {FileAbsent}, GonePool) /\ faults = {}

NextRunning ==
    \/ Construct
    \/ Setup
    \/ Fetch
    \/ ProcessSession
    \/ Aggregate
    \/ Idle
    \/ Cleanup
    \/ Sleep

\* `while True` with a sleep between the ticks: every step of the loop that can be
\* taken is taken, and a pass of the for loop returns.  At pc = "session" the pass of
\* the for loop is the only step there is and it moves idx, so its weak fairness,
\* WF_vars(ProcessSession), is that the loop is outside the for loop again and again.
SpecGone ==
    InitGone /\ [][NextRunning]_vars
    /\ WF_vars(Construct) /\ WF_vars(Setup) /\ WF_vars(Fetch) /\ WF_vars(Aggregate)
    /\ WF_vars(Idle) /\ WF_vars(Cleanup) /\ WF_vars(Sleep)
    /\ []<>(pc # "session")

----------------------------------------------------------------------------
(* Discovery under both settings of tracking.enabled (main.py:504) *)

\* discovery on, tracking on and off, the web interface and Last.fm off
DiscoveryConfigs ==
    { [BaseConfig EXCEPT !.web_enabled = FALSE, !.lastfm = FALSE, !.auto_save = FALSE,
                         !.homeassistant = TRUE, !.tracking_enabled = tr] :
        tr \in BOOLEAN }

InitDiscovery == InitWith(DiscoveryConfigs, {FileAbsent}, GonePool) /\ faults = {}

SpecDiscovery == InitDiscovery /\ [][Next]_vars

----------------------------------------------------------------------------
(* The batch summary behind a session filter that removes sessions *)

\* the allow-set holds user "a" alone; tracking, the web interface and Last.fm off
AllowConfigs ==
    { [BaseConfig EXCEPT !.tracking_enabled = FALSE, !.lastfm = FALSE,
                         !.web_enabled = FALSE, !.strategy = "user_filter",
                         !.user_filter = {"a"}, !.publish_summary = on] :
        on \in BOOLEAN }

InitAllow == InitWith(AllowConfigs, {FileAbsent}, SummaryPool) /\ faults = {}

SpecAllow == InitAllow /\ [][Next]_vars

----------------------------------------------------------------------------
(* Properties *)

TickOver == pc \in {"cleanup", "sleep"}

IdleTick == music_sessions = <<>>

BatchKeys == { StatusKey(music_sessions[i]) : i \in 1..Len(music_sessions) }

BatchWebKeys == { WebSessionKey(music_sessions[i]) : i \in 1..Len(music_sessions) }

\* the session of the batch observed last under identity k
LastObserved(k) ==
    LET last == CHOOSE i \in 1..Len(music_sessions) :
                    /\ StatusKey(music_sessions[i]) = k
                    /\ \A j \in (i + 1)..Len(music_sessions) :
                          StatusKey(music_sessions[j]) # k
    IN  music_sessions[last]

\* C1: in a run of consecutive ticks with an empty filtered batch the stopped-state
\* record is handed to the bus at most once per tick, and not at all in a tick that
\* follows an idle tick: once the idle step of such a tick is over it has published
\* nothing and the marker is still set.
C1_StoppedOncePerIdleRun ==
    (TickOver /\ IdleTick) =>
        /\ tick_stopped_pubs <= 1
        /\ StoppedMarked(last_status)
        /\ (prev_tick = "idle" => tick_stopped_pubs = 0)

C1_Witness ==
    /\ pc = "sleep" /\ IdleTick /\ prev_tick = "idle"
    /\ tick_stopped_pubs = 0 /\ StoppedMarked(last_status)

\* C2: the stopped marker re-arms.  An idle tick that follows an active tick, or is the
\* first tick after startup, publishes the stopped-state record exactly once; and a
\* tick with an active session ends with the marker removed.
C2_StoppedRearms ==
    /\ (TickOver /\ IdleTick /\ prev_tick \in {"start", "active"})
           => tick_stopped_pubs = 1
    /\ (pc = "sleep" /\ ~IdleTick) => ~StoppedMarked(last_status)

C2_Witness ==
    /\ pc = "sleep" /\ IdleTick /\ prev_tick = "active" /\ tick_stopped_pubs = 1

\* what C3 says the change detector answers for a session and a stored record
C3_Expected(ls, s) ==
    \/ StatusKey(s) \notin DOMAIN ls
    \/ ls[StatusKey(s)].status # s.status
    \/ ls[StatusKey(s)].title # s.title
    \/ ls[StatusKey(s)].artist # s.artist
    \/ s.viewOffset - ls[StatusKey(s)].viewOffset > 5000
    \/ ls[StatusKey(s)].viewOffset - s.viewOffset > 5000

C3_SameTrack(ls, s) ==
    /\ StatusKey(s) \in DOMAIN ls
    /\ ls[StatusKey(s)].status = s.status
    /\ ls[StatusKey(s)].title = s.title
    /\ ls[StatusKey(s)].artist = s.artist

\* C3: for a session and a store that holds no entry or a session record under its
\* identity, the change detector answers true exactly when there is no entry, or
\* the status, the title or the artist differs, or the positions differ by more
\* than 5000 ms: a difference of 5000 gives false, of 5001 true, and the stored
\* record itself gives false.
C3_ShouldPublishExactly ==
    (pc = "detected" /\
     (StatusKey(detect_in) \in DOMAIN last_status => IsInfo(last_status[StatusKey(detect_in)])))
    =>
        /\ detect_out \in {"true", "false"}
        /\ detect_out = "true" <=> C3_Expected(last_status, detect_in)
        /\ (C3_SameTrack(last_status, detect_in) /\
            Abs(detect_in.viewOffset - last_status[StatusKey(detect_in)].viewOffset) = 5000)
               => detect_out = "false"
        /\ (C3_SameTrack(last_status, detect_in) /\
            Abs(detect_in.viewOffset - last_status[StatusKey(detect_in)].viewOffset) = 5001)
               => detect_out = "true"
        /\ (StatusKey(detect_in) \in DOMAIN last_status /\
            last_status[StatusKey(detect_in)] = detect_in)
               => detect_out = "false"

C3_Witness ==
    /\ pc = "detected" /\ detect_out = "false"
    /\ C3_SameTrack(last_status, detect_in)
    /\ detect_in.viewOffset - last_status[StatusKey(detect_in)].viewOffset = 5000

\* C4 as claimed: at the end of a tick every entry of last_status other than the
\* stopped marker is the record that was last handed to the bus for its identity.
C4_EntryIsLastPublished ==
    pc = "sleep" =>
        \A k \in (DOMAIN last_status) \ {"_stopped"} :
            k \in DOMAIN last_published /\ last_status[k] = last_published[k]

\* C4, amended: at the end of a tick the entry of each identity of the filtered batch
\* is the record observed for that identity in this tick (the last one of the batch
\* under that identity), published or not; the one identity without an entry is the
\* one whose key is the marker's key "_stopped", which the cleanup removes.
C4_EntryIsLastObserved ==
    pc = "sleep" =>
        \A k \in BatchKeys :
            IF k = "_stopped" THEN k \notin DOMAIN last_status
            ELSE k \in DOMAIN last_status /\ last_status[k] = LastObserved(k)

C4_Witness ==
    /\ pc = "sleep"
    /\ \E k \in BatchKeys \ {"_stopped"} :
          /\ k \in DOMAIN last_status /\ k \in DOMAIN last_published
          /\ last_status[k] = LastObserved(k)
          /\ last_status[k] # last_published[k]

\* C5: after the cleanup of a tick every key of last_status other than the stopped
\* marker is the identity of a session of the filtered batch, and every key of the
\* web interface's session map is the (user, device) key of one.
C5_CleanupLeavesCurrentOnly ==
    pc = "sleep" =>
        /\ (DOMAIN last_status) \ {"_stopped"} \subseteq BatchKeys
        /\ DOMAIN current_sessions \subseteq BatchWebKeys

\* C6: a scrobble attempt for a session whose track id is in the ledger calls the
\* scrobble service not at all and leaves the ledger as it was.
C6_KnownKeySuppressed ==
    scrob.dup => ~scrob.called /\ ~scrob.changed

C6_Witness ==
    /\ scrob.attempt /\ scrob.dup /\ ~scrob.called
    /\ Len(scrobbled_tracks) > 0

\* C7: the scrobble service accepts at most one scrobble per track id in one process
\* lifetime: no accepted scrobble is for an id accepted before.
C7_AtMostOneScrobblePerKey == ~scrob.again

\* the entries of the ledger before a step that are gone after it
C8_Removed ==
    { i \in 1..Len(scrobbled_tracks) :
        ~InLedger(scrobbled_tracks', scrobbled_tracks[i].id) }

C8_Step ==
    (Len(scrobbled_tracks) = 100 /\ scrobbled_tracks' # scrobbled_tracks) =>
        /\ Len(scrobbled_tracks') = 51
        /\ Cardinality(C8_Removed) = 50
        \* the entry just inserted is the last one, and no entry before it is new
        /\ ~InLedger(scrobbled_tracks, scrobbled_tracks'[51].id)
        /\ \A j \in 1..50 : \E i \in 1..100 : scrobbled_tracks[i] = scrobbled_tracks'[j]
        \* the removed entries are the oldest
        /\ \A i \in C8_Removed : \A j \in 1..51 :
              scrobbled_tracks[i].ts <= scrobbled_tracks'[j].ts

\* C8: a successful scrobble that makes the ledger hold 101 entries removes, in the
\* same step, exactly 50 entries, none with a later timestamp than any entry kept,
\* keeps the entry just inserted and leaves 51 entries; the ledger never holds more
\* than 100 entries after a scrobble step.
C8_EvictsOldestHalf ==
    [](Len(scrobbled_tracks) <= 100) /\ [][C8_Step]_vars

C8_Witness ==
    /\ Len(scrobbled_tracks) = 51 /\ scrob.changed
    /\ InLedger(scrobbled_tracks, TrackId(LedgerSession(101, "playing")))
    /\ ~InLedger(scrobbled_tracks, TrackId(LedgerSession(50, "playing")))
    /\ InLedger(scrobbled_tracks, TrackId(LedgerSession(51, "playing")))

\* C9: the seen-users and seen-devices sets only grow: every step of the process, the
\* load at startup included, leaves each set a superset of what it was.
C9_SeenSetsGrow ==
    [][seen_users \subseteq seen_users' /\ seen_devices \subseteq seen_devices']_vars

C9_Witness ==
    /\ {"z", "a", "_b"} \subseteq seen_users
    /\ {"d1", "d2"} \subseteq seen_devices
    /\ pc = "sleep"

\* C10: tracking a (user, device) pair that was tracked before in this process leaves
\* both sets as they were, reports neither as new and writes nothing to the file.
C10_ObserveIdempotent ==
    (obs.tracked /\ obs.repeat) =>
        ~obs.new_user /\ ~obs.new_device /\ ~obs.saved /\ ~obs.grew

C10_Witness ==
    /\ obs.tracked /\ obs.repeat /\ ~obs.saved /\ config.auto_save
    /\ pc = "session"

\* C11: when a save has written the tracking file (tracking and auto-save are on and
\* the write did not fail), the process that starts next and loads the file holds
\* the seen-users and seen-devices sets the saving process held at the save.
C11_SaveLoadRoundTrip ==
    [][(pc = "saved" /\ last_save = "ok") =>
          (seen_users' = seen_users /\ seen_devices' = seen_devices)]_vars

C11_Witness ==
    /\ pc = "loaded" /\ last_save = "ok"
    /\ seen_users = StoreUsers /\ seen_devices = StoreDevices
    /\ file = FileJson(JsonList(SetToSeq(StoreUsers)), JsonList(SetToSeq(StoreDevices)))

\* C12: when an interrupt has ended the loop with tracking enabled and the write of
\* the shutdown save did not fail, the tracking file holds the users and devices sets
\* of memory (a process that loads the file gets them), whether auto-save is on or off.
C12_InterruptFlushes ==
    (pc = "done" /\ exit_cause = "interrupt" /\ config.tracking_enabled /\
     last_save \notin {"open_error", "dump_error"})
    => LoadTrackingData(config, file, {}, {}) =
           [users |-> seen_users, devices |-> seen_devices]

\* a name that holds none of the characters sanitization replaces or strips
C13_TopicSafe(name) ==
    \A i \in 1..Len(name) : SubSeq(name, i, i) \notin {" ", "/", "+", "#", "$"}

\* the session key as the topic shows it
C13_K(s) == IF s.session_key = <<>> THEN "unknown" ELSE ToString(s.session_key[1])

C14_MostRecentFirstOfGreatest ==
    (pc = "filtered" /\ config.strategy = "most_recent" /\ Len(all_music_sessions) > 1)
    =>
        /\ Len(music_sessions) = 1
        /\ \E i \in 1..Len(all_music_sessions) :
              /\ music_sessions[1] = all_music_sessions[i]
              /\ \A j \in 1..Len(all_music_sessions) :
                    all_music_sessions[j].viewOffset <= all_music_sessions[i].viewOffset
              /\ \A j \in 1..(i - 1) :
                    all_music_sessions[j].viewOffset < all_music_sessions[i].viewOffset

\* two users share the greatest position and the earlier one is returned
C14_Witness ==
    /\ pc = "filtered" /\ config.strategy = "most_recent"
    /\ Len(all_music_sessions) = 3
    /\ all_music_sessions[1].viewOffset = 1000
    /\ all_music_sessions[2].viewOffset = 5000 /\ all_music_sessions[2].user = "b"
    /\ all_music_sessions[3].viewOffset = 5000 /\ all_music_sessions[3].user = "a"
    /\ music_sessions = << all_music_sessions[2] >>

\* C15: with strategy priority_user and a priority user configured, the filter
\* returns the sessions of that user, all of them and in their order, when the batch
\* has one; the first session of the batch alone when it has none; and the empty
\* batch for the empty batch.
C15_PriorityUserOrFirst ==
    (pc = "filtered" /\ config.strategy = "priority_user" /\ config.priority_user # "")
    =>
        IF \E i \in 1..Len(all_music_sessions) :
               all_music_sessions[i].user = config.priority_user
        THEN /\ \A i \in 1..Len(music_sessions) :
                    music_sessions[i].user = config.priority_user
             /\ music_sessions =
                    SelectSeq(all_music_sessions,
                              LAMBDA s : s.user = config.priority_user)
        ELSE IF all_music_sessions = <<>> THEN music_sessions = <<>>
        ELSE music_sessions = << all_music_sessions[1] >>

\* no session of the priority user in a batch of three: the first one is returned
C15_Witness ==
    /\ pc = "filtered" /\ config.strategy = "priority_user"
    /\ config.priority_user = "zz"
    /\ Len(all_music_sessions) = 3
    /\ all_music_sessions[1] # all_music_sessions[2]
    /\ music_sessions = << all_music_sessions[1] >>

\* the fields of a formatted duration, split at the colons
RECURSIVE C16_Fields(_)
C16_Fields(str) ==
    IF \E i \in 1..Len(str) : SubSeq(str, i, i) = ":"
    THEN LET i == CHOOSE k \in 1..Len(str) :
                      /\ SubSeq(str, k, k) = ":"
                      /\ \A j \in 1..(k - 1) : SubSeq(str, j, j) # ":"
         IN  << SubSeq(str, 1, i - 1) >> \o C16_Fields(SubSeq(str, i + 1, Len(str)))
    ELSE << str >>

C16_IsNumber(str) ==
    /\ Len(str) > 0
    /\ \A i \in 1..Len(str) : \E d \in 0..9 : ToString(d) = SubSeq(str, i, i)

\* the number a string of digits reads as
RECURSIVE C16_Value(_)
C16_Value(str) ==
    IF Len(str) = 0 THEN 0
    ELSE C16_Value(SubSeq(str, 1, Len(str) - 1)) * 10
         + (CHOOSE d \in 0..9 : ToString(d) = SubSeq(str, Len(str), Len(str)))

\* C16: the formatted duration is "0:00" for every value at or below 0; M:SS with two
\* digits of seconds for a value below one hour; H:MM:SS with two digits of minutes
\* and of seconds from one hour on; the fields read as the whole seconds of the value,
\* minutes and seconds below 60 and the first field without padding.  65000 gives
\* "1:05" and 3661000 gives "1:01:01".
C16_DurationFormat ==
    pc = "formatted" =>
        LET f == C16_Fields(duration_formatted)
            secs == duration_ms \div 1000
        IN  /\ duration_ms <= 0 => duration_formatted = "0:00"
            /\ \A i \in 1..Len(f) : C16_IsNumber(f[i])
            /\ f[1] = ToString(C16_Value(f[1]))
            /\ (duration_ms > 0 /\ secs < 3600) =>
                  /\ Len(f) = 2 /\ Len(f[2]) = 2
                  /\ C16_Value(f[2]) < 60
                  /\ C16_Value(f[1]) * 60 + C16_Value(f[2]) = secs
            /\ secs >= 3600 =>
                  /\ Len(f) = 3 /\ Len(f[2]) = 2 /\ Len(f[3]) = 2
                  /\ C16_Value(f[2]) < 60 /\ C16_Value(f[3]) < 60
                  /\ C16_Value(f[1]) * 3600 + C16_Value(f[2]) * 60 + C16_Value(f[3]) = secs
            /\ duration_ms = 0 => duration_formatted = "0:00"
            /\ duration_ms = 65000 => duration_formatted = "1:05"
            /\ duration_ms = 3661000 => duration_formatted = "1:01:01"

C16_Witness ==
    /\ pc = "formatted" /\ duration_ms = 3661000 /\ duration_formatted = "1:01:01"

\* the state remembered for the entity of the last sensor update
C17_Remembered ==
    IF ha_call.entity \in DOMAIN ha_last_states
    THEN << ha_last_states[ha_call.entity] >> ELSE <<>>

\* C17: a state is pushed to a discovery entity only when the display state differs
\* from the value remembered for the entity; the remembered values are the last states
\* whose push succeeded; a push that raises leaves the remembered value as it was, and
\* the next observation of the same state pushes again.
C17_PushOnChangeRememberAccepted ==
    /\ ha_call.pushed => ha_call.before # << ha_call.state >>
    /\ ha_last_states = ha_entity
    /\ (ha_call.pushed /\ ~ha_call.accepted) => C17_Remembered = ha_call.before
    /\ (ha_call.pushed /\ ha_call.accepted) => C17_Remembered = << ha_call.state >>
    /\ (pc \in {"session", "aggregate"} /\ idx > 1) =>
           ha_call.state = IF music_sessions[idx - 1].status = "playing"
                           THEN music_sessions[idx - 1].title ELSE "Not Playing"
    /\ ha_call.retry => ha_call.pushed

C17_Witness ==
    /\ ha_call.retry /\ ha_call.pushed /\ ha_call.accepted
    /\ ha_call.before = << "t" >> /\ ha_call.state = "Not Playing"
    /\ ha_last_states = ("a_d1" :> "Not Playing")

\* C18: no error raised inside a tick ends the reconciliation loop: the loop is left
\* by an interrupt and by nothing else.
C18_TickErrorsNonFatal == exit_cause # "error"

\* a tick whose fetch failed stands where a tick with an empty batch stands
C20_AsEmptyBatch ==
    fetch_failed = "now" =>
        /\ all_music_sessions = <<>> /\ music_sessions = <<>>
        /\ current_session_keys = {} /\ active_web_sessions = {}
        /\ pc \in {"idle", "cleanup", "sleep", "fetch", "done"}
        /\ exit_cause # "error"

\* the step of a failed fetch is the step of a fetch of the empty batch
C20_FailedFetchStep ==
    (pc = "fetch" /\ pc' # "done" /\ fetch_failed' = "now") =>
        /\ pc' = "idle" /\ all_music_sessions' = <<>> /\ music_sessions' = <<>>
        /\ idx' = 1
        /\ UNCHANGED << config, plex, file, seen_users, seen_devices,
                        users_devices_last_published, last_status, current_sessions,
                        scrobbled_tracks, last_published, exit_cause >>

\* after a failed tick every batch Plex may report can be fetched
C20_NextFetchFree ==
    (pc = "fetch" /\ fetch_failed = "now") =>
        \A b \in Batches(plex) : ENABLED (Fetch /\ all_music_sessions' = b)

\* C20: a tick whose fetch of the sessions failed proceeds as a tick with an empty
\* batch, no error ends the loop in it, and the next tick fetches again whatever Plex
\* reports then.
C20_FetchFailureIsEmptyTick ==
    /\ [] C20_AsEmptyBatch
    /\ [][C20_FailedFetchStep]_vars
    /\ [] C20_NextFetchFree

C20_Witness ==
    /\ fetch_failed = "before" /\ pc = "sleep"
    /\ Len(all_music_sessions) = 2 /\ music_sessions # <<>>
    /\ prev_tick = "idle"

\* C19: a request to the web interface other than the force save changes no state of
\* the bridge; a configuration request leaves the Plex token and the MQTT password of
\* the live configuration as they are, before the connections are set up as after.
C19_RequestsOnlyRead ==
    [][(web_response' # web_response /\ web_response'.route # "save")
          => UNCHANGED bridge_vars]_vars

\* the sessions of a map that api_sessions returns (web_interface.py:61-64)
C21_Active(m) ==
    Restrict(m, { k \in DOMAIN m : m[k].status \in {"playing", "paused"} })

RECURSIVE C21_UpdateAll(_, _, _)
C21_UpdateAll(m, batch, i) ==
    IF i > Len(batch) THEN m
    ELSE C21_UpdateAll(UpdateSession(m, batch[i], GetTopicForSession(config, batch[i])),
                       batch, i + 1)

\* the map the running tick ends with
C21_TickEnd ==
    IF pc \in {"session", "aggregate", "idle", "cleanup"}
    THEN IF music_sessions = <<>> THEN EmptyMap
         ELSE Restrict(C21_UpdateAll(current_sessions, music_sessions, 1),
                       { WebSessionKey(music_sessions[i]) : i \in 1..Len(music_sessions) })
    ELSE current_sessions

\* C21: a read of the session list returns the session map as it stood at the end of
\* a completed tick (the one before the read, or the one the read runs in): never
\* entries of two ticks together, never a map in the middle of its update or cleanup.
C21_ReadSeesCompletedTick ==
    [][(web_response' # web_response /\ web_response'.route = "sessions")
          => web_response'.sessions \in { C21_Active(tick_sessions),
                                          C21_Active(C21_TickEnd) }]_vars

\* C22: at every instant the tracking file holds the complete state saved before or
\* the complete state being saved, never an empty or partial document; this includes
\* the instant a process is killed in the middle of a save.
C22_FileOldOrNew ==
    (pc \in {"store", "writing", "saved"}) =>
        file \in { CrashFile, DumpTrackingData(seen_users, seen_devices) }

C24_Malformed ==
    \/ file.kind = "invalid"
    \/ file.kind = "json" /\ (file.users.tag = "bad" \/ file.devices.tag = "bad")

\* C24: when the tracking file is present and malformed (no JSON, or JSON whose users
\* or devices value cannot be turned into a set), the constructor ends with both sets
\* empty: nothing of the file is loaded.
C24_MalformedLoadsNothing ==
    (pc = "setup" /\ C24_Malformed) => (seen_users = {} /\ seen_devices = {})

\* the scrobble call of the last step failed
C25_Failed == scrob.called /\ ~scrob.accepted

\* C25: when the call to the scrobble service fails, the step ends as a step (the
\* loop is not left), the ledger is as it was and does not hold the key, and the next
\* poll in which the session is playing calls the service for it again.
C25_FailedScrobbleRetried ==
    /\ [](C25_Failed =>
            /\ ~scrob.changed
            /\ ~InLedger(scrobbled_tracks, scrob.id)
            /\ pc = "ledger" /\ exit_cause = "none")
    /\ [][(C25_Failed /\ scrob'.attempt /\ scrob'.id = scrob.id) => scrob'.called]_vars
    /\ [](C25_Failed =>
            ENABLED (LedgerPoll /\ scrob'.id = scrob.id /\ scrob'.accepted))

C25_Witness ==
    /\ C25_Failed /\ scrob.id = "x:t:2"
    /\ Len(scrobbled_tracks) = 1 /\ scrobbled_tracks[1].id = "x:t:1"
    /\ ever_scrobbled = {"x:t:1"}

\* the session of the scrobble step meets every condition of the claim but the ledger's
C26_Qualifies(s) ==
    /\ s.status = "playing"
    /\ s.artist # "" /\ s.title # ""
    /\ s.duration >= MinDurationSec * 1000
    /\ s.progress_percent >= ScrobbleThresholdCenti

C27_Settled(pub, marker, current) ==
    /\ pub = "none" => marker = << current >>
    /\ pub = "sent" => marker = << current >>
    /\ pub = "failed" => marker # << current >>

\* C27: in every tick, each of the users set and the devices set that differs from the
\* value last published with success is published at the aggregate step, and a set
\* equal to it is not; a failed publish leaves the marker as it was, so the set is
\* published again in the following tick, a tick without a session included.  Stated
\* for the ticks that follow a tick with sessions, once their aggregate step is over.
C27_ChangedSetsPublishedEveryTick ==
    (config.tracking_enabled /\ prev_tick = "active" /\ pc \in {"cleanup", "sleep"})
    => /\ C27_Settled(tick_pubs.users, users_devices_last_published.users, seen_users)
       /\ C27_Settled(tick_pubs.devices, users_devices_last_published.devices,
                      seen_devices)

\* C28: a tick publishes a summary exactly when more than one session is active or
\* the configuration enables the summary, and the summary reports the number of the
\* active sessions: with the summary enabled, a tick with an empty batch publishes a
\* summary of zero sessions.  Stated once the tick is past its aggregate step.
C28_SummaryExactlyWhenDue ==
    pc \in {"cleanup", "sleep"} =>
        /\ (tick_pubs.summary # <<>>)
              <=> (Len(all_music_sessions) > 1 \/ config.publish_summary)
        /\ tick_pubs.summary # <<>> => tick_pubs.summary = << Len(all_music_sessions) >>

\* C29: every strategy that places the user or the device in the topic places them
\* sanitized as device names are: the user and device segments of a routed topic hold
\* no space, no '/', no '+', no '#' and no '$'.
C29_SegmentsSanitized ==
    LET s == all_music_sessions[1]
        base == config.topic
        st == config.topic_strategy
        user == CleanDeviceName(s.user)
        device == CleanDeviceName(s.device)
    IN  pc = "routed" =>
            /\ st = "per_user" => routed_topic = base \o "/" \o user
            /\ st = "hierarchical" =>
                   routed_topic = base \o "/" \o user \o "/session_" \o C13_K(s)
            /\ st = "user_device_track" =>
                   routed_topic = base \o "/" \o user \o "/" \o device \o "/DATA"

\* the name as the claim describes it: every space and every '/' is an underscore,
\* every '#', '+' and '$' is gone, every other character stands as it stood
RECURSIVE C30_Expected(_)
C30_Expected(name) ==
    IF Len(name) = 0 THEN ""
    ELSE LET c == SubSeq(name, 1, 1)
             rest == C30_Expected(SubSeq(name, 2, Len(name)))
         IN  IF c \in {" ", "/"} THEN "_" \o rest
             ELSE IF c \in {"#", "+", "$"} THEN rest
             ELSE c \o rest

\* C30: the cleaned device name is a function of the name alone; it holds no space,
\* '/', '#', '+' or '$'; cleaning a cleaned name returns it unchanged.
C30_CleanIdempotent ==
    pc = "cleaned" =>
        LET raw == all_music_sessions[1].device
            clean == music_sessions[1].device
        IN  /\ clean = C30_Expected(raw)
            /\ \A i \in 1..Len(clean) :
                   SubSeq(clean, i, i) \notin {" ", "/", "#", "+", "$"}
            /\ CleanDeviceName(clean) = clean
            /\ music_sessions[1].user = all_music_sessions[1].user

C30_Witness ==
    /\ pc = "cleaned"
    /\ all_music_sessions[1].device = "Living Room/TV #1"
    /\ music_sessions[1].device = "Living_Room_TV_1"

\* the descriptor holds a name
C31_NonEmpty(d) == d.tag = "str" /\ d.val # ""

\* the first non-empty descriptor in the order of the claim, or 'unknown'
C31_Expected(raw) ==
    LET order == << IF raw.has_players THEN raw.p_title ELSE Missing,
                    IF raw.has_players THEN raw.p_device ELSE Missing,
                    IF raw.has_players THEN raw.p_product ELSE Missing,
                    IF raw.has_players THEN raw.p_platform ELSE Missing,
                    raw.s_player_title, raw.s_device >>
    IN  IF \E i \in 1..6 : C31_NonEmpty(order[i])
        THEN order[CHOOSE i \in 1..6 :
                      /\ C31_NonEmpty(order[i])
                      /\ \A j \in 1..(i - 1) : ~C31_NonEmpty(order[j])].val
        ELSE "unknown"

\* C31: the device name of the extracted session is the first non-empty value among
\* player title, player device, player product, player platform, session-level player
\* title and session-level device, and 'unknown' when all are empty or missing: a
\* descriptor that is there but empty is passed over.
C31_FirstNonEmptyDescriptor ==
    pc = "extracted" =>
        /\ Len(music_sessions) = 1
        /\ music_sessions[1].device_original = C31_Expected(all_music_sessions[1])

\* the extraction of the record fails: the extractor's except clause is taken
C32_Fails(raw) == raw.type = "track" /\ ResolveDeviceName(raw).tag # "str"

\* the positions of the batch whose record is a track that extracts
C32_Good(raws) ==
    { i \in 1..Len(raws) : raws[i].type = "track" /\ ~C32_Fails(raws[i]) }

\* C32: a record whose extraction fails contributes no session, and every other track
\* of the same batch is extracted and returned, in the order of the batch: one bad
\* record neither empties nor ends the batch.
C32_BadRecordSkippedAlone ==
    pc = "extracted" =>
        LET raws == all_music_sessions
            good == C32_Good(raws)
        IN  /\ Len(music_sessions) = Cardinality(good)
            /\ \A i \in good :
                 music_sessions[Cardinality({ j \in good : j <= i })]
                   = ExtractMusicInfoFromSession(raws[i])[1]
            /\ \A i \in 1..Len(raws) :
                 C32_Fails(raws[i]) =>
                   \A k \in 1..Len(music_sessions) :
                     music_sessions[k].session_key # raws[i].session_key

C32_Witness ==
    /\ pc = "extracted"
    /\ Len(all_music_sessions) = 3
    /\ ~C32_Fails(all_music_sessions[1])
    /\ C32_Fails(all_music_sessions[2])
    /\ all_music_sessions[3].type = "track" /\ ~C32_Fails(all_music_sessions[3])
    /\ all_music_sessions[3] # all_music_sessions[1]
    /\ Len(music_sessions) = 2
    /\ music_sessions[2].user = all_music_sessions[3].user

\* the two configurations differ in nothing but credentials, and an MQTT password is
\* there in both or in neither
C33_SameButCredentials(c1, c2) ==
    /\ [c1 EXCEPT !.token = "", !.password = <<>>, !.lastfm_api_secret = "",
                  !.lastfm_password = ""]
         = [c2 EXCEPT !.token = "", !.password = <<>>, !.lastfm_api_secret = "",
                      !.lastfm_password = ""]
    /\ (c1.password = <<>>) <=> (c2.password = <<>>)

\* C33: the response of the configuration endpoint holds no credential: every
\* configuration that differs from the live one only in the Plex token, the MQTT
\* password or the Last.fm API secret and password gets the same response.
C33_ResponseHidesCredentials ==
    web_response.route = "config" =>
        \A other \in SecretConfigs :
            C33_SameButCredentials(other, config) =>
                SanitizeConfig(other) = web_response.config

\* the identity of a session: its user and its session key, or its title when it has
\* no session key
C34_Identity(s) == << s.user, SessionKeyOr(s, s.title) >>

\* C34: sessions of distinct (user, session key or title) identities have distinct
\* entries of the last-published state, and no session is stored under the key of
\* the stopped sentinel, whatever underscores or empty names the identities hold.
C34_IdentityKeyInjective ==
    pc = "stored" =>
        /\ Cardinality(DOMAIN last_status)
             = Cardinality({ C34_Identity(all_music_sessions[i]) :
                               i \in 1..Len(all_music_sessions) })
        /\ "_stopped" \notin DOMAIN last_status

\* a pass of the for loop over a session whose record the bus refused in an earlier
\* tick and that is in the batch again with the same state
C35_StillUnpublished ==
    /\ pc = "session"
    /\ pc' # "done"
    /\ LET s == music_sessions[idx] IN
         /\ StatusKey(s) \notin current_session_keys
         /\ StatusKey(s) \in DOMAIN bus.failed
         /\ bus.failed[StatusKey(s)] = s

\* C35: when the bus publish of a session's change failed, the same change is handed
\* to the bus again in the next tick in which the session is there with that state:
\* a failed publish does not count as the state having been published.
C35_FailedPublishRepeated ==
    [][ C35_StillUnpublished
          => bus'.attempt = << StatusKey(music_sessions[idx]) >> ]_vars

\* C36: the stopped sentinel is marked only after the stopped record was published
\* with success, so that a failed publish is made again on a later idle tick of the
\* same idle period.
C36_SentinelOnlyAfterDelivery ==
    last_status = ("_stopped" :> StoppedFlag) => bus.stopped = "sent"

\* the session of (user, device) is in the filtered batch of the tick
C37_InBatch(user, device) ==
    \E i \in 1..Len(music_sessions) :
        music_sessions[i].user = user /\ music_sessions[i].device = device

\* a tick has ended without the session of user "a" on "d1", whose entity was last
\* pushed a playing title
C37_Gone ==
    /\ pc = "sleep"
    /\ ~C37_InBatch("a", "d1")
    /\ EntityId("a", "d1") \in DOMAIN ha_entity
    /\ ha_entity[EntityId("a", "d1")] = "t"

\* C37: after a session whose entity was last pushed as playing has left the batch,
\* the entity's state becomes 'Not Playing' in the end, the user and device not being
\* observed again (the formula lets the entity wait until they are observed again
\* and asks for 'Not Playing' only in the runs in which they never are).
C37_GoneBecomesNotPlaying ==
    C37_Gone ~> (\/ /\ EntityId("a", "d1") \in DOMAIN ha_entity
                    /\ ha_entity[EntityId("a", "d1")] = "Not Playing"
                 \/ C37_InBatch("a", "d1"))

\* C38: with discovery initialised, every pass of the for loop evaluates the
\* discovery state of its session (the sensor update is called for the session's
\* entity with the session's state), tracking of users and devices enabled or not.
C38_DiscoveryEveryTick ==
    [][ (pc = "session" /\ pc' # "done" /\ config.homeassistant)
          => /\ ha_call'.entity = EntityId(music_sessions[idx].user,
                                           music_sessions[idx].device)
             /\ ha_call'.state = DisplayState(music_sessions[idx]) ]_vars

\* sub is made of elements of seq taken in the order of seq
C39_IsSubSeq(sub, seq) ==
    \E f \in [1..Len(sub) -> 1..Len(seq)] :
        /\ \A i \in 1..Len(sub) : seq[f[i]] = sub[i]
        /\ \A i \in 1..Len(sub), j \in 1..Len(sub) : i < j => f[i] < f[j]

\* C39: for every strategy, the names that are no strategy included, and every batch,
\* the result of the session filter is a sub-sequence of the batch in the batch's
\* order, and filtering the result again returns it unchanged.
C39_FilterSubSeqIdempotent ==
    pc = "filtered" =>
        /\ C39_IsSubSeq(music_sessions, all_music_sessions)
        /\ FilterSessions(config, music_sessions) = music_sessions

C39_Witness ==
    /\ pc = "filtered"
    /\ config.strategy = "priority_user"
    /\ Len(all_music_sessions) = 3 /\ Len(music_sessions) = 2
    /\ music_sessions[1] = all_music_sessions[1]
    /\ music_sessions[2] = all_music_sessions[3]
    /\ all_music_sessions[2].user # config.priority_user
    /\ FilterSessions(config, music_sessions) = music_sessions

\* C40: the batch summary counts only the sessions that passed the session filter,
\* and a session the filter removed does not by itself make a summary be published:
\* a summary is published exactly when the filtered batch holds more than one session
\* or the configuration asks for one, and its count is the length of the filtered batch.
C40_SummaryOfFilteredBatch ==
    pc = "cleanup" /\ music_sessions # <<>> =>
        /\ (tick_pubs.summary # <<>>)
             <=> (Len(music_sessions) > 1 \/ config.publish_summary)
        /\ tick_pubs.summary # <<>> => tick_pubs.summary = << Len(music_sessions) >>

====
